---------------------------- MODULE Spec2Model ----------------------------
(***************************************************************************)
(* Model of the codebase-ai-agent: the retrieval and ranking engine        *)
(* (rag-service.js), the conversation sessions kept in DynamoDB            *)
(* (rag-service.js) and the ingestion orchestration (repository-api.js,    *)
(* codebase-processor.js, opensearch-service.js).                          *)
(*                                                                         *)
(* Strings that the code inspects character by character (toLowerCase,     *)
(* includes) are sequences of one-character strings.  Scores are exact     *)
(* rationals written as integers in units of 1/160, so that four           *)
(* successive multiplications by 1.5 stay integral (0.3 is 48).            *)
(***************************************************************************)
EXTENDS Integers, Sequences, FiniteSets, Bags, TLC

VARIABLES
    \* ---- retrieval and ranking ----
    pool,        \* the documents the index can return for a search
    hits,        \* result of OpenSearchService.hybridSearch
    query,       \* the query text of the last search
    mapped,      \* the candidates after the map callback of filterAndRankResults
    ranked,      \* result of RAGService.searchRelevantContext
    context,     \* result of RAGService.buildContext
    rankPc,      \* "collect" while the hit list is formed, "done" after a search, "built" after buildContext
    \* ---- conversation sessions ----
    sessionsTable,   \* the DynamoDB sessions table: sessionId -> item, defined on the stored keys
    qpc,             \* position of each request handler in processQuery
    qsid,            \* the sessionId of the request a handler is serving
    qtext,           \* the query text of that request
    qserial,         \* serial number of that request (stands for its timestamp)
    relevantChunks,  \* the handler's local relevantChunks
    qresult,         \* what the handler's last request returned to its caller
    started,         \* number of chat requests received so far
    completed,       \* per session: number of requests answered successfully
    \* ---- ingestion ----
    faults,            \* whether the external services of ingestion may fail
    ipc,               \* position of each ingestion job in processRepositoryAsync
    ibody,             \* the request body the job was started with
    chunks,            \* the job's chunks (result of processRepository)
    batchStart,        \* the loop variable i of the batch loop
    chunkState,        \* per chunk of the job: where its embed+index task is
    processedCount,    \* the job's processedCount
    ierror,            \* the error caught by the job's catch block
    ingestionsTable,   \* the DynamoDB table codebase-ingestions
    repositoriesTable, \* the DynamoDB repositories table
    indexDocs,         \* the documents of the OpenSearch index (a bag)
    poll,              \* per job: the state of the frontend's status poller
    statusLog,         \* per job: the statuses passed to updateIngestionStatus
    lastWrite,         \* per job: status and message of the last status write
    calls,             \* per job: numbers of embedding, index, metadata calls
    \* ---- chunk extraction ----
    repoTree,    \* the repository on disk: its root directory
    scanned,     \* processRepository's files, the result of scanDirectory
    nextFile,    \* position of processRepository's loop in files
    extracted,   \* processRepository's chunks
    xpc,         \* "start", "files" while the files are processed, "done"
    \* ---- requests ----
    failedAt,    \* per handler: the step of processQuery at which its last request failed
    traffic,     \* the route the clients of this behaviour send their requests to
    received,    \* the last request a route received, and the status of its response
    history      \* the last call of getConversationHistory and what it returned

rankVars == <<pool, hits, query, mapped, ranked, context, rankPc>>

sessVars == <<sessionsTable, qpc, qsid, qtext, qserial, relevantChunks,
              qresult, started, completed, failedAt>>

ingVars == <<faults, ipc, ibody, chunks, batchStart, chunkState, processedCount,
             ierror, ingestionsTable, repositoriesTable, indexDocs, poll,
             statusLog, lastWrite, calls>>

extVars == <<repoTree, scanned, nextFile, extracted, xpc>>

reqVars == <<traffic, received, history>>

vars == <<pool, hits, query, mapped, ranked, context, rankPc,
          sessionsTable, qpc, qsid, qtext, qserial, relevantChunks,
          qresult, started, completed,
          faults, ipc, ibody, chunks, batchStart, chunkState, processedCount,
          ierror, ingestionsTable, repositoriesTable, indexDocs, poll,
          statusLog, lastWrite, calls,
          repoTree, scanned, nextFile, extracted, xpc,
          failedAt, traffic, received, history>>

-----------------------------------------------------------------------------
(* Bounds *)

\* longest hit list drawn from the wide pool (many different candidates)
MaxHitsWide == 2

\* longest hit list drawn from the deep pool (few candidates, long lists)
MaxHitsDeep == 9

\* longest hit list drawn from the long pool (contents around 1000 characters)
MaxHitsLong == 2

\* longest file content, in lines, of the repositories of one file
MaxLines == 4

\* number of chat requests received in one behaviour
MaxQueries == 3

\* longest stored conversation history getConversationHistory is called on
MaxHistory == 3

\* largest limit passed to getConversationHistory, the default aside
MaxLimit == 4

\* number of chunks processRepository extracts from the repository
NumChunks == 4

\* the batch size of the embedding loop; the route uses 10
\* (repository-api.js:94) and the command-line tool 5
batchSize == 2

-----------------------------------------------------------------------------
(* Program constants *)

\* rag-service.js:80, the size passed to hybridSearch
SearchLimit == 15

\* rag-service.js:87, slice(0, 8)
TopK == 8

\* rag-service.js:135, the floor 0.3 in units of 1/160
RelevanceFloor == 48

\* rag-service.js:157, substring(0, 1000) and length > 1000
ContentLimit == 1000

\* chat-api.js:22, query.length > 1000
QueryLimit == 1000

\* chat-api.js:64 and rag-service.js:243, limit = 10
DefaultLimit == 10

-----------------------------------------------------------------------------
(* Strings *)

UpperCase ==
    <<"A","B","C","D","E","F","G","H","I","J","K","L","M",
      "N","O","P","Q","R","S","T","U","V","W","X","Y","Z">>

LowerCase ==
    <<"a","b","c","d","e","f","g","h","i","j","k","l","m",
      "n","o","p","q","r","s","t","u","v","w","x","y","z">>

\* String.prototype.toLowerCase on one character
toLowerChar(c) ==
    IF \E i \in 1..26 : UpperCase[i] = c
    THEN LowerCase[CHOOSE i \in 1..26 : UpperCase[i] = c]
    ELSE c

\* String.prototype.toLowerCase
toLowerCase(s) ==
    [i \in 1..Len(s) |-> toLowerChar(s[i])]

\* String.prototype.includes: sub occurs in s as a contiguous substring
includes(s, sub) ==
    \E i \in 0..(Len(s) - Len(sub)) : SubSeq(s, i + 1, i + Len(sub)) = sub

kwSetup ==
    <<"s","e","t","u","p">>
kwInstall ==
    <<"i","n","s","t","a","l","l">>
kwConfigure ==
    <<"c","o","n","f","i","g","u","r","e">>
kwApi ==
    <<"a","p","i">>
kwEndpoint ==
    <<"e","n","d","p","o","i","n","t">>
kwRoute ==
    <<"r","o","u","t","e">>
kwDatabase ==
    <<"d","a","t","a","b","a","s","e">>
kwModel ==
    <<"m","o","d","e","l">>
kwSchema ==
    <<"s","c","h","e","m","a">>
kwAuth ==
    <<"a","u","t","h">>
kwLogin ==
    <<"l","o","g","i","n">>
kwUser ==
    <<"u","s","e","r">>
kwRoutes ==
    <<"r","o","u","t","e","s">>
kwModels ==
    <<"m","o","d","e","l","s">>

-----------------------------------------------------------------------------
(* Inputs of the ranking: queries and candidates *)

\* "How do I set up this project?"
QuerySetUp ==
    <<"H","o","w"," ","d","o"," ","I"," ","s","e","t"," ","u","p"," ",
      "t","h","i","s"," ","p","r","o","j","e","c","t","?">>

\* "Setup API routes"
QuerySetupApi ==
    <<"S","e","t","u","p"," ","A","P","I"," ","r","o","u","t","e","s">>

\* "User model login"
QueryAuthModel ==
    <<"U","s","e","r"," ","m","o","d","e","l"," ","l","o","g","i","n">>

\* "Why?"
QueryPlain ==
    <<"W","h","y","?">>

\* "Configure the user model API"
QueryAllGroups ==
    <<"C","o","n","f","i","g","u","r","e"," ","t","h","e"," ",
      "u","s","e","r"," ","m","o","d","e","l"," ","A","P","I">>

Queries ==
    {QuerySetUp, QuerySetupApi, QueryAuthModel, QueryPlain, QueryAllGroups}

PathPackageJson ==
    <<"p","a","c","k","a","g","e",".","j","s","o","n">>
PathRoutesAuth ==
    <<"r","o","u","t","e","s","/","a","u","t","h",".","j","s">>
PathModelsUser ==
    <<"m","o","d","e","l","s","/","U","s","e","r",".","j","s">>
PathModelsAuthReadme ==
    <<"m","o","d","e","l","s","/","a","u","t","h","/",
      "R","E","A","D","M","E",".","m","d">>
PathUtil ==
    <<"l","i","b","/","u","t","i","l",".","j","s">>
ContentAuth ==
    <<"A","U","T","H","(",")">>
ContentPlain ==
    <<"x","=","1">>

\* A hit of the index (opensearch-service.js hybridSearch, hit._score and
\* hit._source): the fields filterAndRankResults reads.
Hit(score, fileName, chunkType, filePath, content) ==
    [score |-> score, fileName |-> fileName, chunkType |-> chunkType,
     filePath |-> filePath, content |-> content,
     functionName |-> "", className |-> ""]

\* the configuration chunk of package.json
PackageJsonHit(score) ==
    Hit(score, "package.json", "configuration", PathPackageJson, ContentPlain)

\* a route chunk under routes/, in a file about auth
RouteHit(score) ==
    Hit(score, "auth.js", "route", PathRoutesAuth, ContentPlain)

\* a class chunk under models/ whose content mentions AUTH in upper case
ModelHit(score) ==
    Hit(score, "User.js", "class", PathModelsUser, ContentAuth)

\* a route chunk of a README.md under models/auth/
ReadmeHit(score) ==
    Hit(score, "README.md", "route", PathModelsAuthReadme, ContentPlain)

\* an unrelated code chunk
UtilHit(score) ==
    Hit(score, "util.js", "function", PathUtil, ContentPlain)

\* raw scores 0, 0.2, 0.3, 0.4
Scores ==
    {0, 32, 48, 64}

WidePool ==
    {PackageJsonHit(s) : s \in Scores} \cup {RouteHit(s) : s \in Scores}
      \cup {ModelHit(s) : s \in Scores} \cup {UtilHit(s) : s \in Scores}
      \cup {ReadmeHit(s) : s \in Scores}

DeepPool ==
    {PackageJsonHit(48), UtilHit(64)}

\* a content of n characters: "a" up to the 1000th, "b" from there on
LongContent(n) ==
    [i \in 1..n |-> IF i <= ContentLimit THEN "a" ELSE "b"]

\* a function chunk of main.js with a content of n characters
LongHit(n) ==
    [Hit(64, "main.js", "function", PathUtil, LongContent(n))
        EXCEPT !.functionName = "main"]

\* a class chunk with an empty content
EmptyClassHit ==
    [Hit(64, "User.js", "class", PathModelsUser, <<>>)
        EXCEPT !.className = "App"]

LongPool ==
    {LongHit(ContentLimit - 1), LongHit(ContentLimit),
     LongHit(ContentLimit + 1), EmptyClassHit}

-----------------------------------------------------------------------------
(* RAGService.filterAndRankResults and searchRelevantContext *)

\* relevanceScore *= 1.5
boost_halves(relevanceScore) ==
    relevanceScore \div 2

boost(relevanceScore) ==
    (relevanceScore * 3) \div 2

setupQuery(queryLower) ==
    includes(queryLower, kwSetup) \/ includes(queryLower, kwInstall)
      \/ includes(queryLower, kwConfigure)

setupChunk(chunk) ==
    chunk.fileName = "package.json" \/ chunk.fileName = "README.md"
      \/ chunk.chunkType = "documentation"

apiQuery(queryLower) ==
    includes(queryLower, kwApi) \/ includes(queryLower, kwEndpoint)
      \/ includes(queryLower, kwRoute)

apiChunk(chunk) ==
    includes(chunk.filePath, kwRoutes) \/ chunk.chunkType = "route"

databaseQuery(queryLower) ==
    includes(queryLower, kwDatabase) \/ includes(queryLower, kwModel)
      \/ includes(queryLower, kwSchema)

databaseChunk(chunk) ==
    includes(chunk.filePath, kwModels) \/ chunk.chunkType = "class"

authQuery(queryLower) ==
    includes(queryLower, kwAuth) \/ includes(queryLower, kwLogin)
      \/ includes(queryLower, kwUser)

authChunk(chunk) ==
    includes(chunk.filePath, kwAuth)
      \/ includes(toLowerCase(chunk.content), kwAuth)

\* the body of the map callback: the four boosts applied in turn
relevanceScore_exclusive(chunk, queryLower) ==
    LET s0 == chunk.score
    IN  IF \/ setupQuery(queryLower) /\ setupChunk(chunk)
           \/ apiQuery(queryLower) /\ apiChunk(chunk)
           \/ databaseQuery(queryLower) /\ databaseChunk(chunk)
           \/ authQuery(queryLower) /\ authChunk(chunk)
        THEN boost(s0) ELSE s0

relevanceScore(chunk, queryLower) ==
    LET s0 == chunk.score
        s1 == IF setupQuery(queryLower) /\ setupChunk(chunk)
              THEN boost(s0) ELSE s0
        s2 == IF apiQuery(queryLower) /\ apiChunk(chunk)
              THEN boost(s1) ELSE s1
        s3 == IF databaseQuery(queryLower) /\ databaseChunk(chunk)
              THEN boost(s2) ELSE s2
        s4 == IF authQuery(queryLower) /\ authChunk(chunk)
              THEN boost(s3) ELSE s3
    IN  s4

\* { ...chunk, adjustedScore: relevanceScore }
withAdjustedScore(chunk, queryLower) ==
    [score |-> chunk.score, fileName |-> chunk.fileName,
     chunkType |-> chunk.chunkType, filePath |-> chunk.filePath,
     content |-> chunk.content,
     functionName |-> chunk.functionName, className |-> chunk.className,
     adjustedScore |-> relevanceScore(chunk, queryLower)]

\* insertion of x into a list sorted by the comparator
\* (a, b) => b.adjustedScore - a.adjustedScore; x goes behind every element
\* it does not beat, which is what a stable sort does with the later element
insertSorted_aheadOfEquals(x, s) ==
    LET keep == {i \in 0..Len(s) :
                    \A j \in 1..i : s[j].adjustedScore > x.adjustedScore}
        k == CHOOSE i \in keep : \A j \in keep : j <= i
    IN  SubSeq(s, 1, k) \o <<x>> \o SubSeq(s, k + 1, Len(s))

insertSorted(x, s) ==
    LET keep == {i \in 0..Len(s) :
                    \A j \in 1..i : s[j].adjustedScore >= x.adjustedScore}
        k == CHOOSE i \in keep : \A j \in keep : j <= i
    IN  SubSeq(s, 1, k) \o <<x>> \o SubSeq(s, k + 1, Len(s))

RECURSIVE sort(_)
\* Array.prototype.sort with the comparator above (stable)
sort(s) ==
    IF s = <<>> THEN <<>>
    ELSE insertSorted(s[Len(s)], sort(SubSeq(s, 1, Len(s) - 1)))

\* the filter callback: chunk.adjustedScore > 0.3
aboveFloor_floorInclusive(chunk) ==
    chunk.adjustedScore >= RelevanceFloor

aboveFloor(chunk) ==
    chunk.adjustedScore > RelevanceFloor

filterAndRankResults(searchResults, q) ==
    LET queryLower == toLowerCase(q)
        withScores == [i \in 1..Len(searchResults) |->
                      withAdjustedScore(searchResults[i], queryLower)]
    IN  SelectSeq(sort(withScores), aboveFloor)

\* relevantChunks.slice(0, 8)
slice(s, n) ==
    SubSeq(s, 1, IF Len(s) < n THEN Len(s) ELSE n)

searchRelevantContext(q, searchResults) ==
    slice(filterAndRankResults(searchResults, q), TopK)

-----------------------------------------------------------------------------
(* RAGService.buildContext *)

\* "No specific codebase context found for this query."
NoContextFound ==
    <<"N","o"," ","s","p","e","c","i","f","i","c"," ","c","o","d","e","b",
      "a","s","e"," ","c","o","n","t","e","x","t"," ","f","o","u","n","d",
      " ","f","o","r"," ","t","h","i","s"," ","q","u","e","r","y",".">>

\* "## Relevant Codebase Information:\n\n"
ContextHeader ==
    <<"#","#"," ","R","e","l","e","v","a","n","t"," ","C","o","d","e","b",
      "a","s","e"," ","I","n","f","o","r","m","a","t","i","o","n",":","\n",
      "\n">>

\* "### "
SectionMark ==
    <<"#","#","#"," ">>
\* ". "
DotSpace ==
    <<"."," ">>
\* " ("
OpenParen ==
    <<" ","(">>
\* ")\n"
CloseParenNewline ==
    <<")","\n">>
\* "**File Path:** "
FilePathLabel ==
    <<"*","*","F","i","l","e"," ","P","a","t","h",":","*","*"," ">>
\* "**Function:** "
FunctionLabel ==
    <<"*","*","F","u","n","c","t","i","o","n",":","*","*"," ">>
\* "**Class:** "
ClassLabel ==
    <<"*","*","C","l","a","s","s",":","*","*"," ">>
\* the backquote character, written out since the lexer rejects it in a
\* string
Backquote ==
    "backquote"

\* "**Content:**\n(3 backquotes)\n"
ContentOpen ==
    <<"*","*","C","o","n","t","e","n","t",":","*","*","\n",Backquote,Backquote,Backquote,
      "\n">>
\* "\n(3 backquotes)\n\n"
ContentClose ==
    <<"\n",Backquote,Backquote,Backquote,"\n","\n">>
\* "..."
Ellipsis ==
    <<".",".",".">>
\* "\n"
Newline ==
    <<"\n">>

\* the characters of the file names, chunk types and symbol names of the
\* candidates
chars(name) ==
    CASE name = "package.json" -> <<"p","a","c","k","a","g","e",".","j","s","o","n">>
      [] name = "README.md" -> <<"R","E","A","D","M","E",".","m","d">>
      [] name = "auth.js" -> <<"a","u","t","h",".","j","s">>
      [] name = "User.js" -> <<"U","s","e","r",".","j","s">>
      [] name = "util.js" -> <<"u","t","i","l",".","j","s">>
      [] name = "main.js" -> <<"m","a","i","n",".","j","s">>
      [] name = "configuration" -> <<"c","o","n","f","i","g","u","r","a","t","i","o","n">>
      [] name = "route" -> <<"r","o","u","t","e">>
      [] name = "class" -> <<"c","l","a","s","s">>
      [] name = "function" -> <<"f","u","n","c","t","i","o","n">>
      [] name = "main" -> <<"m","a","i","n">>
      [] name = "App" -> <<"A","p","p">>

Digits ==
    <<"0","1","2","3","4","5","6","7","8","9">>

RECURSIVE toString(_)
\* the decimal digits of a natural number, as template literals print it
toString(n) ==
    IF n < 10 THEN <<Digits[n + 1]>>
    ELSE toString(n \div 10) \o <<Digits[(n % 10) + 1]>>

\* String.prototype.substring(start, end) with 0 <= start <= end
substring(str, start, end) ==
    SubSeq(str, start + 1, IF end < Len(str) THEN end ELSE Len(str))

\* chunk.content.length > 1000 ? "..." : ""
truncationMarker_atLimit(content) ==
    IF Len(content) >= ContentLimit THEN Ellipsis ELSE <<>>

truncationMarker(content) ==
    IF Len(content) > ContentLimit THEN Ellipsis ELSE <<>>

\* the heading lines of one chunk: number, file name, type, path and the
\* optional function and class lines
sectionHeading(chunk, index) ==
    SectionMark \o toString(index + 1) \o DotSpace \o chars(chunk.fileName)
      \o OpenParen \o chars(chunk.chunkType) \o CloseParenNewline
      \o FilePathLabel \o chunk.filePath \o Newline
      \o (IF chunk.functionName # ""
          THEN FunctionLabel \o chars(chunk.functionName) \o Newline
          ELSE <<>>)
      \o (IF chunk.className # ""
          THEN ClassLabel \o chars(chunk.className) \o Newline
          ELSE <<>>)

\* the forEach callback: what one chunk adds to the context
section(chunk, index) ==
    sectionHeading(chunk, index)
      \o ContentOpen \o substring(chunk.content, 0, ContentLimit)
      \o truncationMarker(chunk.content) \o ContentClose

RECURSIVE sections(_, _)
\* relevantChunks.forEach over the first n chunks
sections(chunkList, n) ==
    IF n = 0 THEN <<>>
    ELSE sections(chunkList, n - 1)
           \o section(chunkList[n], n - 1)

buildContext_headerOnly(chunkList) ==
    IF Len(chunkList) = 0
    THEN ContextHeader
    ELSE ContextHeader \o sections(chunkList, Len(chunkList))

buildContext(chunkList) ==
    IF Len(chunkList) = 0
    THEN NoContextFound
    ELSE ContextHeader \o sections(chunkList, Len(chunkList))

-----------------------------------------------------------------------------
(* Conversation sessions: RAGService.processQuery and the sessions table *)

\* GetCommand: result.Item is defined
hasItem(table, key) ==
    key \in DOMAIN table

\* PutCommand: the item replaces whatever the table holds under the key
putItem(table, key, item) ==
    [k \in (DOMAIN table) \cup {key} |-> IF k = key THEN item ELSE table[k]]

Handlers == {"h1", "h2"}

SessionIds == {"s1", "s2"}

\* no request is being served and the sessions table is empty
SessIdle ==
    /\ sessionsTable = <<>>
    /\ qpc = [h \in Handlers |-> "idle"]
    /\ qsid = [h \in Handlers |-> "s1"]
    /\ qtext = [h \in Handlers |-> <<>>]
    /\ qserial = [h \in Handlers |-> 0]
    /\ relevantChunks = [h \in Handlers |-> <<>>]
    /\ qresult = [h \in Handlers |-> "none"]
    /\ started = 0
    /\ completed = [s \in SessionIds |-> 0]
    /\ failedAt = [h \in Handlers |-> "none"]

\* the hit list the index answers with while sessions are exercised
SessionHits ==
    <<UtilHit(32), PackageJsonHit(64)>>

SessionQueries ==
    {QuerySetupApi, QueryPlain}

\* getOrCreateSession, the newSession object (timestamps left out)
newSession ==
    [conversationHistory |-> <<>>, queryCount |-> 0]

\* updateSession, the interaction object: the request's serial number stands
\* for its timestamp
interaction(h) ==
    [serial |-> qserial[h],
     query |-> qtext[h],
     sources |-> [i \in 1..Len(relevantChunks[h]) |->
                     [filePath |-> relevantChunks[h][i].filePath,
                      fileName |-> relevantChunks[h][i].fileName,
                      score |-> relevantChunks[h][i].score]]]

\* the UpdateExpression of updateSession, applied atomically by DynamoDB:
\* queryCount = queryCount + 1, conversationHistory = list_append(..)
appendInteraction(item, inter) ==
    [conversationHistory |-> Append(item.conversationHistory, inter),
     queryCount |-> item.queryCount + 1]

\* the request failed: processQuery rethrows and the route answers 500
fail(h) ==
    /\ qpc' = [qpc EXCEPT ![h] = "idle"]
    /\ qresult' = [qresult EXCEPT ![h] = "error"]
    /\ failedAt' = [failedAt EXCEPT ![h] = qpc[h]]

\* the characters String.prototype.trim removes that the requests use
WhiteSpace == {" ", "\t", "\n"}

RECURSIVE trimStart(_)
\* String.prototype.trimStart
trimStart(s) ==
    IF s = <<>> \/ s[1] \notin WhiteSpace THEN s ELSE trimStart(Tail(s))

RECURSIVE trimEnd(_)
\* String.prototype.trimEnd
trimEnd(s) ==
    IF s = <<>> \/ s[Len(s)] \notin WhiteSpace THEN s
    ELSE trimEnd(SubSeq(s, 1, Len(s) - 1))

\* String.prototype.trim
trim(s) ==
    trimEnd(trimStart(s))

\* a query of n characters
LongQuery(n) ==
    [i \in 1..n |-> "q"]

\* req.body of POST /api/chat/query: with a query, or without one
QueryBody(text) ==
    [query |-> text]

BodyWithoutQuery ==
    [repository |-> "repo"]

\* the bodies the clients send: the queries of the sessions, no query, the
\* empty string, white space only, and 1001 characters
QueryBodies ==
    {QueryBody(q) : q \in SessionQueries}
      \cup {BodyWithoutQuery, QueryBody(<<>>), QueryBody(<<" ", "\t", "\n">>),
            QueryBody(LongQuery(QueryLimit + 1))}

\* the two tests of the route (chat-api.js:16 and :22) both pass; every
\* query of a body is a string
acceptsQuery_untrimmed(body) ==
    /\ "query" \in DOMAIN body
    /\ body.query # <<>>
    /\ ~(Len(body.query) > QueryLimit)

acceptsQuery(body) ==
    /\ "query" \in DOMAIN body
    /\ body.query # <<>>
    /\ Len(trim(body.query)) # 0
    /\ ~(Len(body.query) > QueryLimit)

\* no request has been received and getConversationHistory was not called
NoRequest ==
    [route |-> "none", body |-> [none |-> TRUE], serial |-> 0, status |-> 0]

NoHistoryCall ==
    [called |-> FALSE, sessionId |-> "s1", limit |-> 0, failed |-> FALSE,
     result |-> <<>>]

ReqIdle ==
    /\ traffic = "chat"
    /\ received = NoRequest
    /\ history = NoHistoryCall

\* what the route sends to the caller (chat-api.js:38-46 and :50-53); the
\* text of the model's answer is not modelled
responseBody_partial(h) ==
    IF qresult[h] = "ok" \/ qresult[h] = "error"
    THEN [success |-> qresult[h] = "ok",
          response |-> "response",
          sources |-> [i \in 1..Len(relevantChunks[h]) |->
                          [filePath |-> relevantChunks[h][i].filePath,
                           fileName |-> relevantChunks[h][i].fileName,
                           chunkType |-> relevantChunks[h][i].chunkType,
                           score |-> relevantChunks[h][i].score]],
          sessionId |-> qsid[h]]
    ELSE [pending |-> TRUE]

responseBody(h) ==
    IF qresult[h] = "ok"
    THEN [success |-> TRUE,
          response |-> "response",
          sources |-> [i \in 1..Len(relevantChunks[h]) |->
                          [filePath |-> relevantChunks[h][i].filePath,
                           fileName |-> relevantChunks[h][i].fileName,
                           chunkType |-> relevantChunks[h][i].chunkType,
                           score |-> relevantChunks[h][i].score]],
          sessionId |-> qsid[h]]
    ELSE IF qresult[h] = "error"
    THEN [error |-> "Internal server error while processing query"]
    ELSE [pending |-> TRUE]

\* POST /api/chat/query: the body does not pass the validation and the
\* route answers 400 at once
RejectQuery ==
    /\ started < MaxQueries
    /\ started' = started + 1
    /\ \E body \in QueryBodies :
          /\ ~acceptsQuery(body)
          /\ received' = [route |-> "query", body |-> body,
                          serial |-> started + 1, status |-> 400]
    /\ UNCHANGED <<sessionsTable, qpc, qsid, qtext, qserial, relevantChunks,
                   qresult, completed, failedAt>>
    /\ UNCHANGED <<traffic, history>>
    /\ UNCHANGED rankVars
    /\ UNCHANGED ingVars
    /\ UNCHANGED extVars

\* POST /api/chat/query accepted a valid request and processQuery sent the
\* GetCommand of getOrCreateSession
StartQuery(h) ==
    /\ qpc[h] = "idle"
    /\ started < MaxQueries
    /\ started' = started + 1
    /\ \E sid \in SessionIds, body \in QueryBodies :
          /\ acceptsQuery(body)
          /\ qsid' = [qsid EXCEPT ![h] = sid]
          /\ qtext' = [qtext EXCEPT ![h] = trim(body.query)]
          /\ received' = [route |-> "query", body |-> body,
                          serial |-> started + 1, status |-> 200]
    /\ failedAt' = [failedAt EXCEPT ![h] = "none"]
    /\ qserial' = [qserial EXCEPT ![h] = started + 1]
    /\ relevantChunks' = [relevantChunks EXCEPT ![h] = <<>>]
    /\ qresult' = [qresult EXCEPT ![h] = "none"]
    /\ qpc' = [qpc EXCEPT ![h] = "get"]
    /\ UNCHANGED <<sessionsTable, completed>>
    /\ UNCHANGED <<traffic, history>>
    /\ UNCHANGED rankVars
    /\ UNCHANGED ingVars
    /\ UNCHANGED extVars

\* getOrCreateSession: the GetCommand returns; an existing item is used,
\* otherwise the PutCommand of a new session is sent
GetSession(h) ==
    /\ qpc[h] = "get"
    /\ \/ /\ hasItem(sessionsTable, qsid[h])
          /\ qpc' = [qpc EXCEPT ![h] = "embed"]
          /\ UNCHANGED <<qresult, failedAt>>
       \/ /\ ~hasItem(sessionsTable, qsid[h])
          /\ qpc' = [qpc EXCEPT ![h] = "put"]
          /\ UNCHANGED <<qresult, failedAt>>
       \/ fail(h)
    /\ UNCHANGED <<sessionsTable, qsid, qtext, qserial, relevantChunks,
                   started, completed>>
    /\ UNCHANGED rankVars
    /\ UNCHANGED ingVars
    /\ UNCHANGED extVars
    /\ UNCHANGED reqVars

\* getOrCreateSession: the PutCommand of the new session is applied
PutSession(h) ==
    /\ qpc[h] = "put"
    /\ \/ /\ sessionsTable' = putItem(sessionsTable, qsid[h], newSession)
          /\ qpc' = [qpc EXCEPT ![h] = "embed"]
          /\ UNCHANGED <<qresult, failedAt>>
       \/ /\ fail(h)
          /\ UNCHANGED sessionsTable
    /\ UNCHANGED <<qsid, qtext, qserial, relevantChunks, started, completed>>
    /\ UNCHANGED rankVars
    /\ UNCHANGED ingVars
    /\ UNCHANGED extVars
    /\ UNCHANGED reqVars

\* bedrockService.generateEmbeddings(query) returns
EmbedQuery(h) ==
    /\ qpc[h] = "embed"
    /\ \/ /\ qpc' = [qpc EXCEPT ![h] = "search"]
          /\ UNCHANGED <<qresult, failedAt>>
       \/ fail(h)
    /\ UNCHANGED <<sessionsTable, qsid, qtext, qserial, relevantChunks,
                   started, completed>>
    /\ UNCHANGED rankVars
    /\ UNCHANGED ingVars
    /\ UNCHANGED extVars
    /\ UNCHANGED reqVars

\* searchRelevantContext: hybridSearch returns and the hits are ranked
SearchContext(h) ==
    /\ qpc[h] = "search"
    /\ \/ /\ relevantChunks' = [relevantChunks EXCEPT ![h] =
                                   searchRelevantContext(qtext[h], hits)]
          /\ qpc' = [qpc EXCEPT ![h] = "generate"]
          /\ UNCHANGED <<qresult, failedAt>>
       \/ /\ fail(h)
          /\ UNCHANGED relevantChunks
    /\ UNCHANGED <<sessionsTable, qsid, qtext, qserial, started, completed>>
    /\ UNCHANGED rankVars
    /\ UNCHANGED ingVars
    /\ UNCHANGED extVars
    /\ UNCHANGED reqVars

\* bedrockService.generateResponse returns; on success the UpdateCommand of
\* updateSession is sent
GenerateResponse(h) ==
    /\ qpc[h] = "generate"
    /\ \/ /\ qpc' = [qpc EXCEPT ![h] = "update"]
          /\ UNCHANGED <<qresult, failedAt>>
       \/ fail(h)
    /\ UNCHANGED <<sessionsTable, qsid, qtext, qserial, relevantChunks,
                   started, completed>>
    /\ UNCHANGED rankVars
    /\ UNCHANGED ingVars
    /\ UNCHANGED extVars
    /\ UNCHANGED reqVars

\* updateSession: the UpdateCommand is applied and processQuery returns the
\* response; on an item that does not exist the expression cannot be
\* evaluated and the command fails
UpdateSession(h) ==
    /\ qpc[h] = "update"
    /\ \/ /\ hasItem(sessionsTable, qsid[h])
          /\ sessionsTable' = [sessionsTable EXCEPT ![qsid[h]] =
                                  appendInteraction(@, interaction(h))]
          /\ completed' = [completed EXCEPT ![qsid[h]] = @ + 1]
          /\ qpc' = [qpc EXCEPT ![h] = "idle"]
          /\ qresult' = [qresult EXCEPT ![h] = "ok"]
          /\ UNCHANGED failedAt
       \/ /\ fail(h)
          /\ UNCHANGED <<sessionsTable, completed>>
    /\ UNCHANGED <<qsid, qtext, qserial, relevantChunks, started>>
    /\ UNCHANGED rankVars
    /\ UNCHANGED ingVars
    /\ UNCHANGED extVars
    /\ UNCHANGED reqVars

-----------------------------------------------------------------------------
(* Conversation sessions: RAGService.getConversationHistory *)

\* Array.prototype.slice(start): a negative start counts from the end, and
\* -0 is 0
sliceFrom(list, start) ==
    LET len == Len(list)
        k == IF start < 0 THEN (IF len + start > 0 THEN len + start ELSE 0)
             ELSE (IF start < len THEN start ELSE len)
    IN  SubSeq(list, k + 1, len)

\* getConversationHistory with the item the GetCommand returned
getConversationHistory(table, sessionId, limit) ==
    IF hasItem(table, sessionId)
    THEN sliceFrom(table[sessionId].conversationHistory, 0 - limit)
    ELSE <<>>

\* the limits of the calls: parseInt of the query parameter, or the default
Limits ==
    (0..MaxLimit) \cup {DefaultLimit}

\* the n-th interaction stored in a session
storedInteraction(n) ==
    [serial |-> n, query |-> QueryPlain, sources |-> <<>>]

\* a session that answered n queries
storedSession(n) ==
    [conversationHistory |-> [i \in 1..n |-> storedInteraction(i)],
     queryCount |-> n]

\* the sessions tables of servers that answered up to MaxHistory queries on
\* each session id
HistoryTables ==
    {[s \in stored |-> storedSession(count[s])] :
        stored \in SUBSET SessionIds,
        count \in [SessionIds -> 0..MaxHistory]}

\* a server with such a table and no request in progress
HistoryStart ==
    /\ sessionsTable \in HistoryTables
    /\ qpc = [h \in Handlers |-> "idle"]
    /\ qsid = [h \in Handlers |-> "s1"]
    /\ qtext = [h \in Handlers |-> <<>>]
    /\ qserial = [h \in Handlers |-> 0]
    /\ relevantChunks = [h \in Handlers |-> <<>>]
    /\ qresult = [h \in Handlers |-> "none"]
    /\ started = 0
    /\ completed = [s \in SessionIds |->
                       IF hasItem(sessionsTable, s)
                       THEN sessionsTable[s].queryCount ELSE 0]
    /\ failedAt = [h \in Handlers |-> "none"]

\* GET /api/chat/history/:sessionId: getConversationHistory reads the item
\* and returns the slice, or the GetCommand fails and it returns []
GetConversationHistory ==
    /\ \E sid \in SessionIds, limit \in Limits, failed \in BOOLEAN :
          history' = [called |-> TRUE, sessionId |-> sid, limit |-> limit,
                      failed |-> failed,
                      result |-> IF failed THEN <<>>
                                 ELSE getConversationHistory(sessionsTable,
                                                             sid, limit)]
    /\ UNCHANGED <<traffic, received>>
    /\ UNCHANGED rankVars
    /\ UNCHANGED sessVars
    /\ UNCHANGED ingVars
    /\ UNCHANGED extVars

-----------------------------------------------------------------------------
(* Ingestion: POST /api/repository/ingest and processRepositoryAsync *)

Jobs == {"j1", "j2"}

\* the local path of a directory that exists, and of one that does not
ExistingPath == "/repo"

MissingPath == "/missing"

\* path.join('/tmp', `repo-${ingestionId}`), the directory of the clone
tempDir == "/tmp/repo"

\* the branch the route takes when the body names none (branch = 'main')
DefaultBranch == "main"

\* request bodies as the route destructures them; one of those that pass
\* its validation names a branch of its own
Body(repositoryName, repositoryUrl, localPath, branch) ==
    [repositoryName |-> repositoryName, repositoryUrl |-> repositoryUrl,
     localPath |-> localPath, branch |-> branch]

ValidBodies ==
    {Body("repo", "git://repo", "", DefaultBranch),
     Body("repo", "", ExistingPath, DefaultBranch),
     Body("repo", "", MissingPath, DefaultBranch),
     Body("repo", "git://repo", "", "develop")}

NoBody == Body("", "", "", "")

\* bodies without a repository name, or with neither URL nor local path
\* (a missing field reads as undefined, which the tests treat as "")
InvalidBodies ==
    {Body("", "git://repo", "", DefaultBranch),
     Body("", "", ExistingPath, DefaultBranch),
     Body("repo", "", "", DefaultBranch)}

IngestBodies ==
    ValidBodies \cup InvalidBodies

\* the two tests of the route (repository-api.js:29 and :35) both pass
acceptsIngest(body) ==
    /\ ~(body.repositoryName = "")
    /\ ~(body.repositoryUrl = "" /\ body.localPath = "")

Message(text, n) ==
    [text |-> text, n |-> n]

NoWrite == [status |-> "none", message |-> Message("", 0)]

NoCalls == [embed |-> 0, index |-> 0, meta |-> 0]

\* no job has been started; the tables and the index are empty
IngIdle ==
    /\ faults \in BOOLEAN
    /\ ipc = [j \in Jobs |-> "idle"]
    /\ ibody = [j \in Jobs |-> NoBody]
    /\ chunks = [j \in Jobs |-> <<>>]
    /\ batchStart = [j \in Jobs |-> 0]
    /\ chunkState = [j \in Jobs |-> <<>>]
    /\ processedCount = [j \in Jobs |-> 0]
    /\ ierror = [j \in Jobs |-> ""]
    /\ ingestionsTable = <<>>
    /\ repositoriesTable = <<>>
    /\ indexDocs = EmptyBag
    /\ poll = [j \in Jobs |-> "off"]
    /\ statusLog = [j \in Jobs |-> <<>>]
    /\ lastWrite = [j \in Jobs |-> NoWrite]
    /\ calls = [j \in Jobs |-> NoCalls]

\* the value of repositoryPath (repository-api.js:72-81)
repositoryPath(j) ==
    IF ibody[j].localPath # "" THEN ibody[j].localPath ELSE tempDir

\* CodebaseProcessor.processRepository: scanDirectory catches the error of
\* reading a directory that does not exist and returns no files, so there
\* are no chunks; otherwise the chunks of the repository's files, in order
processRepository(path, repositoryName) ==
    IF path = MissingPath
    THEN <<>>
    ELSE [c \in 1..NumChunks |-> [repository |-> repositoryName, chunk |-> c]]

\* OpenSearchService.indexCodeChunk: the document built from the chunk, with
\* branch: codeChunk.branch || 'main'; the index assigns the id, so equal
\* documents are stored side by side
document(codeChunk) ==
    [repository |-> codeChunk.repository, chunk |-> codeChunk.chunk,
     branch |-> IF "branch" \in DOMAIN codeChunk THEN codeChunk.branch
                ELSE DefaultBranch]

\* chunks.slice(i, i + batchSize), as the set of positions
batch(j, i) ==
    {c \in 1..Len(chunks[j]) : i < c /\ c <= i + batchSize}

\* Math.round((processedCount / chunks.length) * 100)
progress(count, length) ==
    (200 * count + length) \div (2 * length)

\* updateIngestionStatus: the PutCommand is applied, or it fails and the
\* error is logged and swallowed
updateIngestionStatus(j, status, message) ==
    /\ \/ ingestionsTable' = putItem(ingestionsTable, j,
                                     [status |-> status, message |-> message])
       \/ faults /\ UNCHANGED ingestionsTable
    /\ statusLog' = [statusLog EXCEPT ![j] = Append(@, status)]
    /\ lastWrite' = [lastWrite EXCEPT ![j] =
                        [status |-> status, message |-> message]]

\* Promise.all(batch.map(...)): every task of the batch starting at i calls
\* generateCodeEmbeddings
startBatch(j, i) ==
    /\ chunkState' = [chunkState EXCEPT ![j] =
          [c \in 1..Len(chunks[j]) |->
              IF c \in batch(j, i) THEN "embedding" ELSE chunkState[j][c]]]
    /\ calls' = [calls EXCEPT ![j].embed = @ + Cardinality(batch(j, i))]
    /\ ipc' = [ipc EXCEPT ![j] = "batch"]

\* the loop test i < chunks.length with i already set: the next batch, or
\* saveRepositoryMetadata
loopFrom(j, i) ==
    /\ batchStart' = [batchStart EXCEPT ![j] = i]
    /\ IF i < Len(chunks[j])
       THEN startBatch(j, i)
       ELSE /\ ipc' = [ipc EXCEPT ![j] = "save_meta"]
            /\ UNCHANGED <<chunkState, calls>>

\* processedCount after the index call of a task returned
processedAfterIndex_countsFailures(count, ok) ==
    count + 1

processedAfterIndex(count, ok) ==
    IF ok THEN count + 1 ELSE count

\* where the job goes when fs.rmdir returned: its error is caught
afterCleanup_uncaught(err) ==
    IF err THEN "put_failed" ELSE "done"

afterCleanup(err) ==
    "done"

\* the number of ingest requests of one behaviour: one job under every
\* pattern of failures, or every job of Jobs, running concurrently, where
\* no external call fails
MaxJobs ==
    IF faults THEN 1 ELSE Cardinality(Jobs)

\* POST /ingest: the body is valid, the response with the ingestionId is
\* sent, processRepositoryAsync starts and sends the first status write; the
\* frontend starts polling when it has the response
Ingest(j) ==
    /\ ipc[j] = "idle"
    /\ Cardinality({k \in Jobs : ipc[k] # "idle"}) < MaxJobs
    /\ \E b \in IngestBodies :
          /\ acceptsIngest(b)
          /\ ibody' = [ibody EXCEPT ![j] = b]
          /\ received' = [route |-> "ingest", body |-> b, serial |-> 0,
                          status |-> 200]
    /\ ipc' = [ipc EXCEPT ![j] = "put_cloning"]
    /\ poll' = [poll EXCEPT ![j] = "polling"]
    /\ UNCHANGED <<faults, chunks, batchStart, chunkState, processedCount,
                   ierror, ingestionsTable, repositoriesTable, indexDocs,
                   statusLog, lastWrite, calls>>
    /\ UNCHANGED <<traffic, history>>
    /\ UNCHANGED rankVars
    /\ UNCHANGED sessVars
    /\ UNCHANGED extVars

\* POST /ingest: the body does not pass the validation and the route
\* answers 400 at once
RejectIngest ==
    /\ \E b \in IngestBodies :
          /\ ~acceptsIngest(b)
          /\ received' = [route |-> "ingest", body |-> b, serial |-> 0,
                          status |-> 400]
    /\ UNCHANGED <<traffic, history>>
    /\ UNCHANGED rankVars
    /\ UNCHANGED sessVars
    /\ UNCHANGED ingVars
    /\ UNCHANGED extVars

\* the write of 'processing', 'Cloning repository...' returns; then the
\* clone is started unless a local path was given
WriteCloning(j) ==
    /\ ipc[j] = "put_cloning"
    /\ updateIngestionStatus(j, "processing", Message("Cloning repository...", 0))
    /\ ipc' = [ipc EXCEPT ![j] =
                  IF ibody[j].localPath # "" THEN "put_processing" ELSE "clone"]
    /\ UNCHANGED <<faults, ibody, chunks, batchStart, chunkState, processedCount,
                   ierror, repositoriesTable, indexDocs, poll, calls>>
    /\ UNCHANGED rankVars
    /\ UNCHANGED sessVars
    /\ UNCHANGED extVars
    /\ UNCHANGED reqVars

\* git.clone returns; its error is caught by the job's catch block
Clone(j) ==
    /\ ipc[j] = "clone"
    /\ \/ /\ ipc' = [ipc EXCEPT ![j] = "put_processing"]
          /\ UNCHANGED ierror
       \/ /\ faults
          /\ ierror' = [ierror EXCEPT ![j] = "clone failed"]
          /\ ipc' = [ipc EXCEPT ![j] = "put_failed"]
    /\ UNCHANGED <<faults, ibody, chunks, batchStart, chunkState, processedCount,
                   ingestionsTable, repositoriesTable, indexDocs, poll,
                   statusLog, lastWrite, calls>>
    /\ UNCHANGED rankVars
    /\ UNCHANGED sessVars
    /\ UNCHANGED extVars
    /\ UNCHANGED reqVars

\* the write of 'processing', 'Processing code files...' returns
WriteProcessing(j) ==
    /\ ipc[j] = "put_processing"
    /\ updateIngestionStatus(j, "processing",
                             Message("Processing code files...", 0))
    /\ ipc' = [ipc EXCEPT ![j] = "process"]
    /\ UNCHANGED <<faults, ibody, chunks, batchStart, chunkState, processedCount,
                   ierror, repositoriesTable, indexDocs, poll, calls>>
    /\ UNCHANGED rankVars
    /\ UNCHANGED sessVars
    /\ UNCHANGED extVars
    /\ UNCHANGED reqVars

\* codebaseProcessor.processRepository returns the chunks
ProcessRepository(j) ==
    /\ ipc[j] = "process"
    /\ chunks' = [chunks EXCEPT ![j] =
                     processRepository(repositoryPath(j),
                                       ibody[j].repositoryName)]
    /\ chunkState' = [chunkState EXCEPT ![j] =
                         [c \in 1..Len(chunks'[j]) |-> "waiting"]]
    /\ ipc' = [ipc EXCEPT ![j] = "put_generating"]
    /\ UNCHANGED <<faults, ibody, batchStart, processedCount, ierror,
                   ingestionsTable, repositoriesTable, indexDocs, poll,
                   statusLog, lastWrite, calls>>
    /\ UNCHANGED rankVars
    /\ UNCHANGED sessVars
    /\ UNCHANGED extVars
    /\ UNCHANGED reqVars

\* the write of 'processing', 'Generating embeddings...' returns and the
\* batch loop starts with i = 0
WriteGenerating(j) ==
    /\ ipc[j] = "put_generating"
    /\ updateIngestionStatus(j, "processing",
                             Message("Generating embeddings...", 0))
    /\ loopFrom(j, 0)
    /\ UNCHANGED <<faults, ibody, chunks, processedCount, ierror, repositoriesTable,
                   indexDocs, poll>>
    /\ UNCHANGED rankVars
    /\ UNCHANGED sessVars
    /\ UNCHANGED extVars
    /\ UNCHANGED reqVars

\* bedrockService.generateCodeEmbeddings(chunk) returns: the index call
\* follows, or the task's catch logs the error
EmbedReturns(j, c) ==
    /\ ipc[j] = "batch"
    /\ c \in 1..Len(chunks[j])
    /\ chunkState[j][c] = "embedding"
    /\ \/ /\ chunkState' = [chunkState EXCEPT ![j][c] = "indexing"]
          /\ calls' = [calls EXCEPT ![j].index = @ + 1]
       \/ /\ faults
          /\ chunkState' = [chunkState EXCEPT ![j][c] = "failed"]
          /\ UNCHANGED calls
    /\ UNCHANGED <<faults, ipc, ibody, chunks, batchStart, processedCount, ierror,
                   ingestionsTable, repositoriesTable, indexDocs, poll,
                   statusLog, lastWrite>>
    /\ UNCHANGED rankVars
    /\ UNCHANGED sessVars
    /\ UNCHANGED extVars
    /\ UNCHANGED reqVars

\* openSearchService.indexCodeChunk(chunk, embedding) returns: the document
\* is stored and processedCount++, or the task's catch logs the error
IndexReturns(j, c) ==
    /\ ipc[j] = "batch"
    /\ c \in 1..Len(chunks[j])
    /\ chunkState[j][c] = "indexing"
    /\ \E ok \in {TRUE} \cup {~faults} :
          /\ chunkState' = [chunkState EXCEPT ![j][c] =
                               IF ok THEN "ok" ELSE "failed"]
          /\ indexDocs' = IF ok
                          THEN indexDocs (+) SetToBag({document(chunks[j][c])})
                          ELSE indexDocs
          /\ processedCount' = [processedCount EXCEPT ![j] =
                                   processedAfterIndex(@, ok)]
    /\ UNCHANGED <<faults, ipc, ibody, chunks, batchStart, ierror, ingestionsTable,
                   repositoriesTable, poll, statusLog, lastWrite, calls>>
    /\ UNCHANGED rankVars
    /\ UNCHANGED sessVars
    /\ UNCHANGED extVars
    /\ UNCHANGED reqVars

\* Promise.all(batch.map(...)) resolves: every task of the batch has
\* finished, its index call returned or its catch ran
allSettled_first(j) ==
    \E c \in batch(j, batchStart[j]) : chunkState[j][c] \in {"ok", "failed"}

allSettled(j) ==
    \A c \in batch(j, batchStart[j]) : chunkState[j][c] \in {"ok", "failed"}

\* Promise.all resolves when every task of the batch has finished; the
\* progress write is sent
FanIn(j) ==
    /\ ipc[j] = "batch"
    /\ allSettled(j)
    /\ ipc' = [ipc EXCEPT ![j] = "put_progress"]
    /\ UNCHANGED <<faults, ibody, chunks, batchStart, chunkState, processedCount,
                   ierror, ingestionsTable, repositoriesTable, indexDocs,
                   poll, statusLog, lastWrite, calls>>
    /\ UNCHANGED rankVars
    /\ UNCHANGED sessVars
    /\ UNCHANGED extVars
    /\ UNCHANGED reqVars

\* the write of 'processing', 'Indexing chunks... n%' returns; i += batchSize
WriteProgress(j) ==
    /\ ipc[j] = "put_progress"
    /\ updateIngestionStatus(j, "processing",
          Message("Indexing chunks... %",
                  progress(processedCount[j], Len(chunks[j]))))
    /\ loopFrom(j, batchStart[j] + batchSize)
    /\ UNCHANGED <<faults, ibody, chunks, processedCount, ierror, repositoriesTable,
                   indexDocs, poll>>
    /\ UNCHANGED rankVars
    /\ UNCHANGED sessVars
    /\ UNCHANGED extVars
    /\ UNCHANGED reqVars

\* saveRepositoryMetadata returns: the item is stored, or the error is
\* logged and swallowed; the final status write is sent
SaveMetadata(j) ==
    /\ ipc[j] = "save_meta"
    /\ \/ repositoriesTable' =
             putItem(repositoriesTable, ibody[j].repositoryName,
                     [repositoryUrl |-> ibody[j].repositoryUrl,
                      totalChunks |-> processedCount[j],
                      ingestionId |-> j])
       \/ faults /\ UNCHANGED repositoriesTable
    /\ calls' = [calls EXCEPT ![j].meta = @ + 1]
    /\ ipc' = [ipc EXCEPT ![j] = "put_completed"]
    /\ UNCHANGED <<faults, ibody, chunks, batchStart, chunkState, processedCount,
                   ierror, ingestionsTable, indexDocs, poll, statusLog,
                   lastWrite>>
    /\ UNCHANGED rankVars
    /\ UNCHANGED sessVars
    /\ UNCHANGED extVars
    /\ UNCHANGED reqVars

\* the write of 'completed' returns; a cloned repository is then removed
WriteCompleted(j) ==
    /\ ipc[j] = "put_completed"
    /\ updateIngestionStatus(j, "completed",
          Message("Successfully processed chunks", processedCount[j]))
    /\ ipc' = [ipc EXCEPT ![j] =
                  IF ibody[j].localPath = "" THEN "cleanup" ELSE "done"]
    /\ UNCHANGED <<faults, ibody, chunks, batchStart, chunkState, processedCount,
                   ierror, repositoriesTable, indexDocs, poll, calls>>
    /\ UNCHANGED rankVars
    /\ UNCHANGED sessVars
    /\ UNCHANGED extVars
    /\ UNCHANGED reqVars

\* fs.rmdir(tempDir).catch(console.error) returns
Cleanup(j) ==
    /\ ipc[j] = "cleanup"
    /\ \E err \in {FALSE} \cup {faults} :
          /\ ipc' = [ipc EXCEPT ![j] = afterCleanup(err)]
          /\ ierror' = [ierror EXCEPT ![j] =
                           IF afterCleanup(err) = "done" THEN @
                           ELSE "rmdir failed"]
    /\ UNCHANGED <<faults, ibody, chunks, batchStart, chunkState, processedCount,
                   ingestionsTable, repositoriesTable, indexDocs, poll,
                   statusLog, lastWrite, calls>>
    /\ UNCHANGED rankVars
    /\ UNCHANGED sessVars
    /\ UNCHANGED extVars
    /\ UNCHANGED reqVars

\* the catch block: the write of 'failed' with error.message returns
WriteFailed(j) ==
    /\ ipc[j] = "put_failed"
    /\ updateIngestionStatus(j, "failed", Message(ierror[j], 0))
    /\ ipc' = [ipc EXCEPT ![j] = "done"]
    /\ UNCHANGED <<faults, ibody, chunks, batchStart, chunkState, processedCount,
                   ierror, repositoriesTable, indexDocs, poll, calls>>
    /\ UNCHANGED rankVars
    /\ UNCHANGED sessVars
    /\ UNCHANGED extVars
    /\ UNCHANGED reqVars

\* pollIngestionStatus: GET /status/:ingestionId answers 404 when the table
\* has no item (the poller then stops without a word), the item otherwise;
\* the poller goes on while the status is neither completed nor failed
PollStatus(j) ==
    /\ poll[j] = "polling"
    /\ poll' = [poll EXCEPT ![j] =
          IF ~hasItem(ingestionsTable, j) THEN "notfound"
          ELSE IF ingestionsTable[j].status \in {"completed", "failed"}
               THEN ingestionsTable[j].status
               ELSE "polling"]
    /\ poll'[j] # poll[j]
    /\ UNCHANGED <<faults, ipc, ibody, chunks, batchStart, chunkState,
                   processedCount, ierror, ingestionsTable,
                   repositoriesTable, indexDocs, statusLog, lastWrite, calls>>
    /\ UNCHANGED rankVars
    /\ UNCHANGED sessVars
    /\ UNCHANGED extVars
    /\ UNCHANGED reqVars

-----------------------------------------------------------------------------
(* Retrieval: forming a hit list and searching *)

MaxHits ==
    IF pool = DeepPool THEN MaxHitsDeep
    ELSE IF pool = LongPool THEN MaxHitsLong ELSE MaxHitsWide

RankStart ==
    /\ pool \in {WidePool, DeepPool, LongPool}
    /\ hits = <<>>
    /\ query = <<>>
    /\ mapped = <<>>
    /\ ranked = <<>>
    /\ context = <<>>
    /\ rankPc = "collect"

\* hybridSearch returns one more hit (at most SearchLimit of them)
AddHit ==
    /\ rankPc = "collect"
    /\ Len(hits) < MaxHits
    /\ Len(hits) < SearchLimit
    /\ \E h \in pool : hits' = Append(hits, h)
    /\ UNCHANGED <<pool, query, mapped, ranked, context, rankPc>>
    /\ UNCHANGED sessVars
    /\ UNCHANGED ingVars
    /\ UNCHANGED extVars
    /\ UNCHANGED reqVars

\* searchRelevantContext(query, queryEmbedding, repositoryFilter)
Search ==
    /\ rankPc = "collect"
    /\ \E q \in Queries :
          /\ query' = q
          /\ mapped' = [i \in 1..Len(hits) |->
                         withAdjustedScore(hits[i], toLowerCase(q))]
          /\ ranked' = searchRelevantContext(q, hits)
    /\ rankPc' = "done"
    /\ UNCHANGED <<pool, hits, context>>
    /\ UNCHANGED sessVars
    /\ UNCHANGED ingVars
    /\ UNCHANGED extVars
    /\ UNCHANGED reqVars

\* processQuery: const context = this.buildContext(relevantChunks)
BuildContext ==
    /\ rankPc = "done"
    /\ context' = buildContext(ranked)
    /\ rankPc' = "built"
    /\ UNCHANGED <<pool, hits, query, mapped, ranked>>
    /\ UNCHANGED sessVars
    /\ UNCHANGED ingVars
    /\ UNCHANGED extVars
    /\ UNCHANGED reqVars

-----------------------------------------------------------------------------
(* CodebaseProcessor: the repository walk (codebase-processor.js) *)

\* ".gitignore"
NameGitignore ==
    <<".","g","i","t","i","g","n","o","r","e">>
\* "README.md"
NameReadmeMd ==
    <<"R","E","A","D","M","E",".","m","d">>
\* "app.min.js"
NameAppMinJs ==
    <<"a","p","p",".","m","i","n",".","j","s">>
\* "logo.png"
NameLogoPng ==
    <<"l","o","g","o",".","p","n","g">>
\* "main.js"
NameMainJs ==
    <<"m","a","i","n",".","j","s">>
\* "node_modules"
NameNodeModules ==
    <<"n","o","d","e","_","m","o","d","u","l","e","s">>
\* "lib.js"
NameLibJs ==
    <<"l","i","b",".","j","s">>
\* "package.json"
NamePackageJson ==
    <<"p","a","c","k","a","g","e",".","j","s","o","n">>
\* "src"
NameSrc ==
    <<"s","r","c">>
\* "util.js"
NameUtilJs ==
    <<"u","t","i","l",".","j","s">>
\* "secret.js"
NameSecretJs ==
    <<"s","e","c","r","e","t",".","j","s">>
\* "Types.TS"
NameTypesTs ==
    <<"T","y","p","e","s",".","T","S">>

\* this.supportedExtensions
supportedExtensions ==
    {<<".","j","s">>,
     <<".","t","s">>,
     <<".","j","s","x">>,
     <<".","t","s","x">>,
     <<".","p","y">>,
     <<".","j","a","v","a">>,
     <<".","c","p","p">>,
     <<".","c">>,
     <<".","h">>,
     <<".","c","s">>,
     <<".","p","h","p">>,
     <<".","r","b">>,
     <<".","g","o">>,
     <<".","r","s">>,
     <<".","s","w","i","f","t">>,
     <<".","k","t">>,
     <<".","s","c","a","l","a">>,
     <<".","m","d">>,
     <<".","t","x","t">>,
     <<".","j","s","o","n">>,
     <<".","y","a","m","l">>,
     <<".","y","m","l">>,
     <<".","x","m","l">>,
     <<".","h","t","m","l">>,
     <<".","c","s","s">>,
     <<".","s","q","l">>,
     <<".","s","h">>,
     <<".","b","a","t">>,
     <<".","d","o","c","k","e","r","f","i","l","e">>,
     <<".","t","f">>}

\* this.ignoredDirectories
ignoredDirectories ==
    {<<"n","o","d","e","_","m","o","d","u","l","e","s">>,
     <<".","g","i","t">>,
     <<".","s","v","n">>,
     <<".","h","g">>,
     <<"d","i","s","t">>,
     <<"b","u","i","l","d">>,
     <<"t","a","r","g","e","t">>,
     <<".","n","e","x","t">>,
     <<".","n","u","x","t">>,
     <<"c","o","v","e","r","a","g","e">>,
     <<".","n","y","c","_","o","u","t","p","u","t">>,
     <<"l","o","g","s">>,
     <<"t","m","p">>,
     <<"t","e","m","p">>}

\* isCodeFile: codeExtensions
codeExtensions ==
    {<<".","j","s">>,
     <<".","t","s">>,
     <<".","j","s","x">>,
     <<".","t","s","x">>,
     <<".","p","y">>,
     <<".","j","a","v","a">>,
     <<".","c","p","p">>,
     <<".","c">>,
     <<".","h">>,
     <<".","c","s">>,
     <<".","p","h","p">>,
     <<".","r","b">>,
     <<".","g","o">>,
     <<".","r","s">>}

ExtMd ==
    <<".","m","d">>
ExtJson ==
    <<".","j","s","o","n">>

\* an ignore pattern "dir/**": everything under the root directory dir
Under(dir) ==
    [kind |-> "under", text |-> dir]

\* an ignore pattern "*text": a name that ends with text, at any depth
EndsWith(text) ==
    [kind |-> "suffix", text |-> text]

\* an ignore pattern "text*": a name that starts with text, at any depth
StartsWith(text) ==
    [kind |-> "prefix", text |-> text]

\* an ignore pattern "text": a name equal to text, at any depth
Named(text) ==
    [kind |-> "name", text |-> text]

\* loadGitignore: the default patterns added to every repository
defaultPatterns ==
    {Under(<<"n","o","d","e","_","m","o","d","u","l","e","s">>), Under(<<".","g","i","t">>), Under(<<"d","i","s","t">>), Under(<<"b","u","i","l","d">>), Under(<<"c","o","v","e","r","a","g","e">>),
     EndsWith(<<".","l","o","g">>), StartsWith(<<".","e","n","v">>),
     EndsWith(<<".","m","i","n",".","j","s">>), EndsWith(<<".","b","u","n","d","l","e",".","j","s">>)}
-----------------------------------------------------------------------------
(* CodebaseProcessor: lines of file content *)

\* A line of a file, content.split('\n')[i], with what the extractors read
\* off it: its length, whether trim() leaves nothing, whether the trimmed
\* line starts with // or #, whether it includes the opening and the
\* closing delimiter of a block comment, the pattern groups (function,
\* class, route, in this order) with a pattern that matches it, its numbers
\* of opening and closing braces, whether it is a markdown header, and the
\* ignore pattern it is when it is a line of .gitignore.
NoPattern ==
    [kind |-> "none", text |-> <<>>]

\* an async function with a long signature
LongFunctionLine ==
    [text |-> "async function handleLoginRequest(request, response, next) {", length |-> 60,
     blank |-> FALSE, lineComment |-> FALSE, openComment |-> FALSE,
     closeComment |-> FALSE, types |-> <<"function">>, opens |-> 1, closes |-> 0,
     header |-> FALSE, pattern |-> NoPattern]

\* a function
FunctionLine ==
    [text |-> "function f() {", length |-> 14,
     blank |-> FALSE, lineComment |-> FALSE, openComment |-> FALSE,
     closeComment |-> FALSE, types |-> <<"function">>, opens |-> 1, closes |-> 0,
     header |-> FALSE, pattern |-> NoPattern]

\* a closing brace
CloseBraceLine ==
    [text |-> "}", length |-> 1,
     blank |-> FALSE, lineComment |-> FALSE, openComment |-> FALSE,
     closeComment |-> FALSE, types |-> <<>>, opens |-> 0, closes |-> 1,
     header |-> FALSE, pattern |-> NoPattern]

\* a class
ClassLine ==
    [text |-> "class User {", length |-> 12,
     blank |-> FALSE, lineComment |-> FALSE, openComment |-> FALSE,
     closeComment |-> FALSE, types |-> <<"class">>, opens |-> 1, closes |-> 0,
     header |-> FALSE, pattern |-> NoPattern]

\* a route
RouteLine ==
    [text |-> "router.get('/login', handleLoginRequest);", length |-> 41,
     blank |-> FALSE, lineComment |-> FALSE, openComment |-> FALSE,
     closeComment |-> FALSE, types |-> <<"route">>, opens |-> 0, closes |-> 0,
     header |-> FALSE, pattern |-> NoPattern]

\* an empty line
BlankLine ==
    [text |-> "", length |-> 0,
     blank |-> TRUE, lineComment |-> FALSE, openComment |-> FALSE,
     closeComment |-> FALSE, types |-> <<>>, opens |-> 0, closes |-> 0,
     header |-> FALSE, pattern |-> NoPattern]

\* the start of a block comment
OpenCommentLine ==
    [text |-> "/* note", length |-> 7,
     blank |-> FALSE, lineComment |-> FALSE, openComment |-> TRUE,
     closeComment |-> FALSE, types |-> <<>>, opens |-> 0, closes |-> 0,
     header |-> FALSE, pattern |-> NoPattern]

\* the end of a block comment
CloseCommentLine ==
    [text |-> "done */", length |-> 7,
     blank |-> FALSE, lineComment |-> FALSE, openComment |-> FALSE,
     closeComment |-> TRUE, types |-> <<>>, opens |-> 0, closes |-> 0,
     header |-> FALSE, pattern |-> NoPattern]

\* a statement
StatementLine ==
    [text |-> "return 1;", length |-> 9,
     blank |-> FALSE, lineComment |-> FALSE, openComment |-> FALSE,
     closeComment |-> FALSE, types |-> <<>>, opens |-> 0, closes |-> 0,
     header |-> FALSE, pattern |-> NoPattern]

\* a line comment
LineCommentLine ==
    [text |-> "// comment", length |-> 10,
     blank |-> FALSE, lineComment |-> TRUE, openComment |-> FALSE,
     closeComment |-> FALSE, types |-> <<>>, opens |-> 0, closes |-> 0,
     header |-> FALSE, pattern |-> NoPattern]

\* a markdown header of level 1
HeaderLine ==
    [text |-> "# Title", length |-> 7,
     blank |-> FALSE, lineComment |-> TRUE, openComment |-> FALSE,
     closeComment |-> FALSE, types |-> <<>>, opens |-> 0, closes |-> 0,
     header |-> TRUE, pattern |-> NoPattern]

\* a markdown header of level 2
SubHeaderLine ==
    [text |-> "## Setup", length |-> 8,
     blank |-> FALSE, lineComment |-> TRUE, openComment |-> FALSE,
     closeComment |-> FALSE, types |-> <<>>, opens |-> 0, closes |-> 0,
     header |-> TRUE, pattern |-> NoPattern]

\* a line of prose
TextLine ==
    [text |-> "Some text.", length |-> 10,
     blank |-> FALSE, lineComment |-> FALSE, openComment |-> FALSE,
     closeComment |-> FALSE, types |-> <<>>, opens |-> 0, closes |-> 0,
     header |-> FALSE, pattern |-> NoPattern]

\* a JSON object
JsonObjectLine ==
    [text |-> "{}", length |-> 2,
     blank |-> FALSE, lineComment |-> FALSE, openComment |-> FALSE,
     closeComment |-> FALSE, types |-> <<>>, opens |-> 1, closes |-> 1,
     header |-> FALSE, pattern |-> NoPattern]

\* the start of a JSON object that is never closed
JsonBrokenLine ==
    [text |-> "{", length |-> 1,
     blank |-> FALSE, lineComment |-> FALSE, openComment |-> FALSE,
     closeComment |-> FALSE, types |-> <<>>, opens |-> 1, closes |-> 0,
     header |-> FALSE, pattern |-> NoPattern]

\* a line of .gitignore that names secret.js
GitignoreSecretLine ==
    [text |-> "secret.js", length |-> 9,
     blank |-> FALSE, lineComment |-> FALSE, openComment |-> FALSE,
     closeComment |-> FALSE, types |-> <<>>, opens |-> 0, closes |-> 0,
     header |-> FALSE, pattern |-> Named(NameSecretJs)]

\* an exported default class: "export" opens patterns of two families
ExportClassLine ==
    [text |-> "export default class Account {", length |-> 30,
     blank |-> FALSE, lineComment |-> FALSE, openComment |-> FALSE,
     closeComment |-> FALSE, types |-> <<"class">>, opens |-> 1, closes |-> 0,
     header |-> FALSE, pattern |-> NoPattern]

\* an exported async function
ExportFunctionLine ==
    [text |-> "export async function login(user) {", length |-> 35,
     blank |-> FALSE, lineComment |-> FALSE, openComment |-> FALSE,
     closeComment |-> FALSE, types |-> <<"function">>, opens |-> 1, closes |-> 0,
     header |-> FALSE, pattern |-> NoPattern]

\* a class declaration that the pattern of public methods matches
PublicClassLine ==
    [text |-> "public class Account(", length |-> 21,
     blank |-> FALSE, lineComment |-> FALSE, openComment |-> FALSE,
     closeComment |-> FALSE, types |-> <<"function">>, opens |-> 0, closes |-> 0,
     header |-> FALSE, pattern |-> NoPattern]

\* a function under the key "type", a keyword of the class patterns
TypeKeyLine ==
    [text |-> "type: function () {", length |-> 19,
     blank |-> FALSE, lineComment |-> FALSE, openComment |-> FALSE,
     closeComment |-> FALSE, types |-> <<"function">>, opens |-> 1, closes |-> 0,
     header |-> FALSE, pattern |-> NoPattern]

\* a function under the key "app", the object of the route patterns
AppKeyLine ==
    [text |-> "app: function () {", length |-> 18,
     blank |-> FALSE, lineComment |-> FALSE, openComment |-> FALSE,
     closeComment |-> FALSE, types |-> <<"function">>, opens |-> 1, closes |-> 0,
     header |-> FALSE, pattern |-> NoPattern]

\* a function whose opening brace is on the next line
FunctionNoBraceLine ==
    [text |-> "function outer()", length |-> 16,
     blank |-> FALSE, lineComment |-> FALSE, openComment |-> FALSE,
     closeComment |-> FALSE, types |-> <<"function">>, opens |-> 0, closes |-> 0,
     header |-> FALSE, pattern |-> NoPattern]

\* an opening brace followed by the start of a block comment
BraceCommentLine ==
    [text |-> "{ /* the body", length |-> 13,
     blank |-> FALSE, lineComment |-> FALSE, openComment |-> TRUE,
     closeComment |-> FALSE, types |-> <<>>, opens |-> 1, closes |-> 0,
     header |-> FALSE, pattern |-> NoPattern]

\* a function expression, which no pattern matches
InnerFunctionLine ==
    [text |-> "var formatUserName = function (firstName, lastName) {", length |-> 53,
     blank |-> FALSE, lineComment |-> FALSE, openComment |-> FALSE,
     closeComment |-> FALSE, types |-> <<>>, opens |-> 1, closes |-> 0,
     header |-> FALSE, pattern |-> NoPattern]

\* a markdown line that starts with # without a space after it
NoSpaceHeaderLine ==
    [text |-> "#Title", length |-> 6,
     blank |-> FALSE, lineComment |-> TRUE, openComment |-> FALSE,
     closeComment |-> FALSE, types |-> <<>>, opens |-> 0, closes |-> 0,
     header |-> FALSE, pattern |-> NoPattern]

CodeLines ==
    {LongFunctionLine, FunctionLine, CloseBraceLine, ClassLine, RouteLine,
     BlankLine, OpenCommentLine, CloseCommentLine, StatementLine,
     LineCommentLine}

MarkdownLines ==
    {HeaderLine, SubHeaderLine, TextLine, BlankLine, NoSpaceHeaderLine}

\* lines that come close to the patterns of two families
NearMissLines ==
    {ExportClassLine, ExportFunctionLine, PublicClassLine, TypeKeyLine,
     AppKeyLine, RouteLine}

\* a function with its brace on a line that opens a block comment, and a
\* function expression nested in its body
NestedFunctionLines ==
    <<FunctionNoBraceLine, BraceCommentLine, CloseCommentLine,
      InnerFunctionLine, StatementLine, CloseBraceLine, StatementLine,
      CloseBraceLine>>

JsonLines ==
    {JsonObjectLine, JsonBrokenLine, BlankLine}

-----------------------------------------------------------------------------
(* CodebaseProcessor: directory entries and the ignore rules *)

\* a directory entry (fs.Dirent with what is behind it): a file with its
\* lines, or a directory with its entries in readdir order; readable is
\* whether fs.readFile or fs.readdir succeeds on it
File(name, content) ==
    [name |-> name, kind |-> "file", readable |-> TRUE, content |-> content,
     entries |-> <<>>]

Dir(name, entries) ==
    [name |-> name, kind |-> "dir", readable |-> TRUE, content |-> <<>>,
     entries |-> entries]

Unreadable(entry) ==
    [entry EXCEPT !.readable = FALSE]

startsWith(s, prefix) ==
    Len(prefix) <= Len(s) /\ SubSeq(s, 1, Len(prefix)) = prefix

endsWith(s, suffix) ==
    /\ Len(suffix) <= Len(s)
    /\ SubSeq(s, Len(s) - Len(suffix) + 1, Len(s)) = suffix

\* path.extname: from the last dot of the name on, nothing when there is no
\* dot or the only dot leads the name
extname(name) ==
    LET dots == {i \in 1..Len(name) : name[i] = "."}
        last == CHOOSE i \in dots : \A k \in dots : k <= i
    IN  IF dots = {} \/ last = 1 THEN <<>> ELSE SubSeq(name, last, Len(name))

\* one ignore pattern against a path given by its segments
matches(pattern, segments) ==
    LET base == segments[Len(segments)]
    IN  CASE pattern.kind = "under" ->
                 Len(segments) >= 2 /\ segments[1] = pattern.text
          [] pattern.kind = "suffix" -> endsWith(base, pattern.text)
          [] pattern.kind = "prefix" -> startsWith(base, pattern.text)
          [] pattern.kind = "name" -> base = pattern.text
          [] OTHER -> FALSE

\* gitignore.ignores(relativeFilePath): the path or one of its parent
\* directories matches a pattern
ignores(gitignore, segments) ==
    \E k \in 1..Len(segments) :
        \E pattern \in gitignore : matches(pattern, SubSeq(segments, 1, k))

\* loadGitignore: the patterns of the repository's .gitignore, when it can be
\* read, and the default patterns
loadGitignore(root) ==
    LET found == {i \in 1..Len(root.entries) :
                     /\ root.entries[i].name = NameGitignore
                     /\ root.entries[i].kind = "file"
                     /\ root.entries[i].readable}
        own == IF ~root.readable \/ found = {} THEN {}
               ELSE LET lines == root.entries[CHOOSE i \in found : TRUE].content
                    IN  {lines[i].pattern : i \in 1..Len(lines)}
    IN  own \cup defaultPatterns

RECURSIVE scanDirectory(_, _, _)
RECURSIVE scanEntries(_, _, _, _)
\* the loop of scanDirectory over the first n entries of a directory
scanEntries(entries, n, gitignore, relativePath) ==
    IF n = 0 THEN <<>>
    ELSE LET before == scanEntries(entries, n - 1, gitignore, relativePath)
             entry == entries[n]
             relativeFilePath == Append(relativePath, entry.name)
         IN  IF ignores(gitignore, relativeFilePath) THEN before
             ELSE IF entry.kind = "dir"
             THEN IF entry.name \notin ignoredDirectories
                  THEN before \o scanDirectory(entry, gitignore, relativeFilePath)
                  ELSE before
             ELSE IF entry.kind = "file"
                       /\ toLowerCase(extname(entry.name)) \in supportedExtensions
             THEN Append(before, [path |-> relativeFilePath, file |-> entry])
             ELSE before

\* scanDirectory: the files below a directory that are to be processed; an
\* error of readdir is caught and leaves the list empty
scanDirectory(dir, gitignore, relativePath) ==
    IF ~dir.readable THEN <<>>
    ELSE scanEntries(dir.entries, Len(dir.entries), gitignore, relativePath)

-----------------------------------------------------------------------------
(* CodebaseProcessor: the chunk extractors *)

\* a chunk as the extractors build it (lines in place of the joined string)
Chunk(type, content, filePath, fileName, repositoryName, startLine, endLine) ==
    [type |-> type, content |-> content, filePath |-> filePath,
     fileName |-> fileName, repository |-> repositoryName,
     startLine |-> startLine, endLine |-> endLine]

\* currentChunk = null
NoChunk ==
    Chunk("none", <<>>, <<>>, <<>>, "", 0, 0)

RECURSIVE contentLength(_)
\* chunk.content.length: every line was added as line + '\n'
contentLength(content) ==
    IF content = <<>> THEN 0
    ELSE contentLength(SubSeq(content, 1, Len(content) - 1))
           + content[Len(content)].length + 1

\* chunk.content.trim() is not empty
hasText(content) ==
    \E i \in 1..Len(content) : ~content[i].blank

\* the size of the preview of createFileOverview, lines.slice(0, 30)
PreviewLines == 30

\* the file-level chunk of processFile; of its content the preview lines
overviewChunk(lines, filePath, fileName, repositoryName) ==
    Chunk("file_overview",
          SubSeq(lines, 1, IF Len(lines) < PreviewLines THEN Len(lines)
                           ELSE PreviewLines),
          filePath, fileName, repositoryName, 1, Len(lines))

\* the scan state of extractCodeChunks before the first line
codeScanStart ==
    [chunks |-> <<>>, currentChunk |-> NoChunk, braceCount |-> 0,
     inMultilineComment |-> FALSE]

\* "Save previous chunk if exists" and "Start new chunk" for one pattern
\* group that matches line i
startChunk_zeroBased(st, type, line, i, filePath, fileName, repositoryName) ==
    [st EXCEPT
        !.chunks = IF st.currentChunk # NoChunk
                      /\ hasText(st.currentChunk.content)
                   THEN Append(@, st.currentChunk) ELSE @,
        !.currentChunk = Chunk(type, <<line>>, filePath, fileName,
                               repositoryName, i - 1, i - 1),
        !.braceCount = 0]

startChunk_emitsAtOnce(st, type, line, i, filePath, fileName, repositoryName) ==
    [st EXCEPT
        !.chunks = Append(IF st.currentChunk # NoChunk
                             /\ hasText(st.currentChunk.content)
                          THEN Append(@, st.currentChunk) ELSE @,
                          Chunk(type, <<line>>, filePath, fileName,
                                repositoryName, i, i)),
        !.currentChunk = Chunk(type, <<line>>, filePath, fileName,
                               repositoryName, i, i),
        !.braceCount = 0]

startChunk(st, type, line, i, filePath, fileName, repositoryName) ==
    [st EXCEPT
        !.chunks = IF st.currentChunk # NoChunk
                      /\ hasText(st.currentChunk.content)
                   THEN Append(@, st.currentChunk) ELSE @,
        !.currentChunk = Chunk(type, <<line>>, filePath, fileName,
                               repositoryName, i, i),
        !.braceCount = 0]

RECURSIVE startChunks(_, _, _, _, _, _, _)
\* the loop over the pattern groups, for the first n groups that match
startChunks(st, n, line, i, filePath, fileName, repositoryName) ==
    IF n = 0 THEN st
    ELSE startChunk(startChunks(st, n - 1, line, i, filePath, fileName,
                                repositoryName),
                    line.types[n], line, i, filePath, fileName, repositoryName)

\* the end of a chunk: braces balanced and more than 100 characters
chunkEnds_anyLength(braceCount, content) ==
    braceCount <= 0

chunkEnds(braceCount, content) ==
    braceCount <= 0 /\ contentLength(content) > 100

\* "if (currentChunk)" at the end of the loop body
growChunk_notReset(st, line, i) ==
    IF st.currentChunk = NoChunk THEN st
    ELSE LET content == Append(st.currentChunk.content, line)
             grown == [st.currentChunk EXCEPT !.content = content,
                                              !.endLine = i]
             braceCount == st.braceCount + line.opens - line.closes
         IN  IF chunkEnds(braceCount, content)
             THEN [st EXCEPT !.chunks = Append(@, grown),
                             !.currentChunk = grown,
                             !.braceCount = braceCount]
             ELSE [st EXCEPT !.currentChunk = grown,
                             !.braceCount = braceCount]

growChunk(st, line, i) ==
    IF st.currentChunk = NoChunk THEN st
    ELSE LET content == Append(st.currentChunk.content, line)
             grown == [st.currentChunk EXCEPT !.content = content,
                                              !.endLine = i]
             braceCount == st.braceCount + line.opens - line.closes
         IN  IF chunkEnds(braceCount, content)
             THEN [st EXCEPT !.chunks = Append(@, grown),
                             !.currentChunk = NoChunk,
                             !.braceCount = braceCount]
             ELSE [st EXCEPT !.currentChunk = grown,
                             !.braceCount = braceCount]

\* the body of the for loop of extractCodeChunks for line i (counted from 1)
codeScanLine(st, line, i, filePath, fileName, repositoryName) ==
    LET opened == IF line.openComment THEN TRUE ELSE st.inMultilineComment
        inside == IF line.closeComment THEN FALSE ELSE opened
        s1 == [st EXCEPT !.inMultilineComment = inside]
    IN  IF inside THEN s1
        ELSE IF line.lineComment \/ line.blank
        THEN IF s1.currentChunk # NoChunk
             THEN [s1 EXCEPT !.currentChunk.content = Append(@, line)]
             ELSE s1
        ELSE growChunk(startChunks(s1, Len(line.types), line, i, filePath,
                                   fileName, repositoryName),
                       line, i)

RECURSIVE codeScan(_, _, _, _, _)
\* the for loop of extractCodeChunks over the first n lines
codeScan(lines, n, filePath, fileName, repositoryName) ==
    IF n = 0 THEN codeScanStart
    ELSE codeScanLine(codeScan(lines, n - 1, filePath, fileName,
                               repositoryName),
                      lines[n], n, filePath, fileName, repositoryName)

\* "Add final chunk if exists" / "Add final section"
withFinal(list, current) ==
    IF current # NoChunk /\ hasText(current.content)
    THEN Append(list, current) ELSE list

extractCodeChunks(lines, filePath, fileName, repositoryName) ==
    LET st == codeScan(lines, Len(lines), filePath, fileName, repositoryName)
    IN  withFinal(st.chunks, st.currentChunk)

\* the scan state of extractDocumentationChunks before the first line
docScanStart ==
    [chunks |-> <<>>, currentSection |-> NoChunk]

\* the body of the for loop of extractDocumentationChunks for line i
docScanLine_endAtHeader(st, line, i, filePath, fileName, repositoryName) ==
    IF line.header
    THEN [chunks |-> withFinal(st.chunks, st.currentSection),
          currentSection |-> Chunk("documentation", <<line>>, filePath,
                                   fileName, repositoryName, i, i)]
    ELSE IF st.currentSection # NoChunk
    THEN [st EXCEPT !.currentSection.content = Append(@, line)]
    ELSE st

docScanLine(st, line, i, filePath, fileName, repositoryName) ==
    IF line.header
    THEN [chunks |-> withFinal(st.chunks, st.currentSection),
          currentSection |-> Chunk("documentation", <<line>>, filePath,
                                   fileName, repositoryName, i, i)]
    ELSE IF st.currentSection # NoChunk
    THEN [st EXCEPT !.currentSection.content = Append(@, line),
                    !.currentSection.endLine = i]
    ELSE st

RECURSIVE docScan(_, _, _, _, _)
\* the for loop of extractDocumentationChunks over the first n lines
docScan(lines, n, filePath, fileName, repositoryName) ==
    IF n = 0 THEN docScanStart
    ELSE docScanLine(docScan(lines, n - 1, filePath, fileName,
                             repositoryName),
                     lines[n], n, filePath, fileName, repositoryName)

extractDocumentationChunks(lines, filePath, fileName, repositoryName) ==
    LET st == docScan(lines, Len(lines), filePath, fileName, repositoryName)
    IN  withFinal(st.chunks, st.currentSection)

\* JSON.parse(content) returns: the content is one JSON object among blank
\* lines
parses(lines) ==
    /\ \A i \in 1..Len(lines) : lines[i] \in {JsonObjectLine, BlankLine}
    /\ Cardinality({i \in 1..Len(lines) : lines[i] = JsonObjectLine}) = 1

\* extractConfigChunks; the pretty-printed object is its one line
extractConfigChunks_unparsed(lines, filePath, fileName, repositoryName) ==
    <<Chunk("configuration", lines, filePath, fileName, repositoryName,
            1, Len(lines))>>

extractConfigChunks(lines, filePath, fileName, repositoryName) ==
    IF parses(lines)
    THEN <<Chunk("configuration", <<JsonObjectLine>>, filePath, fileName,
                 repositoryName, 1, Len(lines))>>
    ELSE <<>>

\* processFile: the overview and the chunks of the extractor of the file's
\* type; nothing when the file cannot be read
processFile_extractorOnly(found, repositoryName) ==
    IF ~found.file.readable THEN <<>>
    ELSE LET lines == found.file.content
             relativePath == found.path
             fileName == found.path[Len(found.path)]
             fileExtension == toLowerCase(extname(fileName))
         IN  IF fileExtension \in codeExtensions
             THEN extractCodeChunks(lines, relativePath, fileName,
                                    repositoryName)
             ELSE IF fileExtension = ExtMd
             THEN extractDocumentationChunks(lines, relativePath,
                                             fileName, repositoryName)
             ELSE IF fileExtension = ExtJson
             THEN extractConfigChunks(lines, relativePath, fileName,
                                      repositoryName)
             ELSE <<>>

processFile(found, repositoryName) ==
    IF ~found.file.readable THEN <<>>
    ELSE LET lines == found.file.content
             relativePath == found.path
             fileName == found.path[Len(found.path)]
             fileExtension == toLowerCase(extname(fileName))
         IN  <<overviewChunk(lines, relativePath, fileName, repositoryName)>>
               \o (IF fileExtension \in codeExtensions
                   THEN extractCodeChunks(lines, relativePath, fileName,
                                          repositoryName)
                   ELSE IF fileExtension = ExtMd
                   THEN extractDocumentationChunks(lines, relativePath,
                                                   fileName, repositoryName)
                   ELSE IF fileExtension = ExtJson
                   THEN extractConfigChunks(lines, relativePath, fileName,
                                            repositoryName)
                   ELSE <<>>)

-----------------------------------------------------------------------------
(* CodebaseProcessor.processRepository over repositories *)

RepositoryName == "repo"

\* the entries a repository root can hold, in readdir order
RootEntries ==
    <<File(NameGitignore, <<GitignoreSecretLine>>),
      File(NameReadmeMd, <<HeaderLine, TextLine, SubHeaderLine>>),
      File(NameAppMinJs, <<StatementLine>>),
      File(NameLogoPng, <<TextLine>>),
      File(NameMainJs, <<FunctionLine, StatementLine, CloseBraceLine>>),
      Dir(NameNodeModules, <<File(NameLibJs, <<StatementLine>>)>>),
      File(NamePackageJson, <<JsonObjectLine>>),
      Dir(NameSrc, <<File(NameUtilJs, <<ClassLine, CloseBraceLine>>),
                     File(NameSecretJs, <<StatementLine>>),
                     File(NameTypesTs, <<ClassLine>>)>>)>>

\* the entries that may fail to be read: main.js and src
MayFail ==
    {5, 8}

RECURSIVE pick(_, _, _)
\* the first n root entries that are present, those of failing unreadable
pick(n, present, failing) ==
    IF n = 0 THEN <<>>
    ELSE LET before == pick(n - 1, present, failing)
         IN  IF n \notin present THEN before
             ELSE Append(before, IF n \in failing
                                 THEN Unreadable(RootEntries[n])
                                 ELSE RootEntries[n])

\* repositories that differ in which entries exist and can be read
TreeRepos ==
    {Dir(<<>>, pick(Len(RootEntries), present, failing)) :
        present \in SUBSET (1..Len(RootEntries)), failing \in SUBSET MayFail}
      \cup {Unreadable(Dir(<<>>, <<>>))}

\* the file contents of up to MaxLines lines over a set of lines
Contents(lineSet) ==
    UNION {[1..n -> lineSet] : n \in 1..MaxLines}

\* repositories of one file, over every content of the file
ContentRepos ==
    {Dir(<<>>, <<File(NameMainJs, c)>>) : c \in Contents(CodeLines)}
      \cup {Dir(<<>>, <<File(NameReadmeMd, c)>>) : c \in Contents(MarkdownLines)}
      \cup {Dir(<<>>, <<File(NamePackageJson, c)>>) : c \in Contents(JsonLines)}

\* repositories of one code file of one or two near-miss lines
NearMissRepos ==
    {Dir(<<>>, <<File(NameMainJs, c)>>) :
        c \in [1..1 -> NearMissLines] \cup [1..2 -> NearMissLines]}

\* the repository of the nested function
NestedRepo ==
    Dir(<<>>, <<File(NameMainJs, NestedFunctionLines)>>)

ExtractStart ==
    /\ repoTree \in TreeRepos \cup ContentRepos \cup NearMissRepos
                     \cup {NestedRepo}
    /\ scanned = <<>>
    /\ nextFile = 1
    /\ extracted = <<>>
    /\ xpc = "start"

\* no repository is being processed
ExtractIdle ==
    /\ repoTree = Dir(<<>>, <<>>)
    /\ scanned = <<>>
    /\ nextFile = 1
    /\ extracted = <<>>
    /\ xpc = "done"

\* processRepository: loadGitignore and scanDirectory return
ScanRepository ==
    /\ xpc = "start"
    /\ scanned' = scanDirectory(repoTree, loadGitignore(repoTree), <<>>)
    /\ xpc' = "files"
    /\ UNCHANGED <<repoTree, nextFile, extracted>>
    /\ UNCHANGED rankVars
    /\ UNCHANGED sessVars
    /\ UNCHANGED ingVars
    /\ UNCHANGED reqVars

\* processRepository: processFile returns for the next file of the list
ProcessFile ==
    /\ xpc = "files"
    /\ nextFile <= Len(scanned)
    /\ extracted' = extracted \o processFile(scanned[nextFile], RepositoryName)
    /\ nextFile' = nextFile + 1
    /\ UNCHANGED <<repoTree, scanned, xpc>>
    /\ UNCHANGED rankVars
    /\ UNCHANGED sessVars
    /\ UNCHANGED ingVars
    /\ UNCHANGED reqVars

\* processRepository returns the chunks
ReturnChunks ==
    /\ xpc = "files"
    /\ nextFile > Len(scanned)
    /\ xpc' = "done"
    /\ UNCHANGED <<repoTree, scanned, nextFile, extracted>>
    /\ UNCHANGED rankVars
    /\ UNCHANGED sessVars
    /\ UNCHANGED ingVars
    /\ UNCHANGED reqVars

-----------------------------------------------------------------------------
(* Specifications *)

RankInit ==
    RankStart /\ SessIdle /\ IngIdle /\ ExtractIdle /\ ReqIdle

RankNext ==
    \/ AddHit
    \/ Search
    \/ BuildContext

SpecRank ==
    RankInit /\ [][RankNext]_vars

SessInit ==
    /\ pool = {}
    /\ hits = SessionHits
    /\ query = <<>>
    /\ mapped = <<>>
    /\ ranked = <<>>
    /\ context = <<>>
    /\ rankPc = "done"
    /\ SessIdle
    /\ IngIdle
    /\ ExtractIdle
    /\ ReqIdle

SessNext ==
    \E h \in Handlers :
        \/ StartQuery(h)
        \/ GetSession(h)
        \/ PutSession(h)
        \/ EmbedQuery(h)
        \/ SearchContext(h)
        \/ GenerateResponse(h)
        \/ UpdateSession(h)

SpecSession ==
    SessInit /\ [][SessNext]_vars

RankIdle ==
    /\ pool = {}
    /\ hits = <<>>
    /\ query = <<>>
    /\ mapped = <<>>
    /\ ranked = <<>>
    /\ context = <<>>
    /\ rankPc = "done"

IngInit ==
    RankIdle /\ SessIdle /\ IngIdle /\ ExtractIdle /\ ReqIdle

IngNext ==
    \E j \in Jobs :
        \/ Ingest(j)
        \/ WriteCloning(j)
        \/ Clone(j)
        \/ WriteProcessing(j)
        \/ ProcessRepository(j)
        \/ WriteGenerating(j)
        \/ \E c \in 1..NumChunks : EmbedReturns(j, c)
        \/ \E c \in 1..NumChunks : IndexReturns(j, c)
        \/ FanIn(j)
        \/ WriteProgress(j)
        \/ SaveMetadata(j)
        \/ WriteCompleted(j)
        \/ Cleanup(j)
        \/ WriteFailed(j)
        \/ PollStatus(j)

SpecIngest ==
    IngInit /\ [][IngNext]_vars

ExtractInit ==
    RankIdle /\ SessIdle /\ IngIdle /\ ~faults /\ ExtractStart /\ ReqIdle

ExtractNext ==
    \/ ScanRepository
    \/ ProcessFile
    \/ ReturnChunks

SpecExtract ==
    ExtractInit /\ [][ExtractNext]_vars

\* getConversationHistory called on servers that answered some queries
HistoryInit ==
    RankIdle /\ HistoryStart /\ IngIdle /\ ~faults /\ ExtractIdle /\ ReqIdle

HistoryNext ==
    GetConversationHistory

SpecHistory ==
    HistoryInit /\ [][HistoryNext]_vars

\* the two routes with the requests that do not pass their validation; the
\* routes share no state, and the clients of one behaviour use one of them
RoutesInit ==
    /\ pool = {}
    /\ hits = SessionHits
    /\ query = <<>>
    /\ mapped = <<>>
    /\ ranked = <<>>
    /\ context = <<>>
    /\ rankPc = "done"
    /\ SessIdle
    /\ IngIdle
    /\ ExtractIdle
    /\ traffic \in {"chat", "repository"}
    /\ received = NoRequest
    /\ history = NoHistoryCall

RoutesNext ==
    \/ traffic = "chat" /\ (SessNext \/ RejectQuery)
    \/ traffic = "repository" /\ (IngNext \/ RejectIngest)

SpecRoutes ==
    RoutesInit /\ [][RoutesNext]_vars

-----------------------------------------------------------------------------
(* Claims about retrieval and ranking *)

\* the adjusted score the code gives to hit h under the last query
adjustedOf(h) ==
    relevanceScore(h, toLowerCase(query))

\* C1: for every hit list and every query, searchRelevantContext returns at
\* most 8 chunks, in non-increasing order of adjustedScore, each with an
\* adjustedScore strictly above 0.3 (48 units); a hit whose adjusted score
\* is exactly 0.3 is not returned.
C1_AtMostEightRankedAboveFloor ==
    rankPc = "done" =>
        /\ Len(ranked) <= 8
        /\ \A i, j \in 1..Len(ranked) :
              i < j => ranked[i].adjustedScore >= ranked[j].adjustedScore
        /\ \A i \in 1..Len(ranked) : ranked[i].adjustedScore > 48
        /\ \A i \in 1..Len(hits) :
              adjustedOf(hits[i]) = 48 =>
                  \A j \in 1..Len(ranked) :
                      ranked[j] # withAdjustedScore(hits[i], toLowerCase(query))

\* more than 8 hits pass the floor, 8 are returned, a boosted hit leads the
\* unboosted ones, and one hit sits exactly on the floor
C1_Witness ==
    /\ rankPc = "done"
    /\ Len(hits) = 9
    /\ Len(ranked) = 8
    /\ ranked[1].adjustedScore > ranked[8].adjustedScore
    /\ hits[1].score < hits[2].score

\* a hit exactly on the floor was searched for and left out
C1_WitnessFloor ==
    /\ rankPc = "done"
    /\ \E i \in 1..Len(hits) : adjustedOf(hits[i]) = 48
    /\ Len(ranked) > 0

\* the intent groups whose keyword the lowercased query contains and whose
\* condition hit h meets
groupsMet(h, q) ==
    LET queryLower == toLowerCase(q)
    IN  {g \in {"setup", "api", "database", "auth"} :
           \/ g = "setup" /\ setupQuery(queryLower) /\ setupChunk(h)
           \/ g = "api" /\ apiQuery(queryLower) /\ apiChunk(h)
           \/ g = "database" /\ databaseQuery(queryLower) /\ databaseChunk(h)
           \/ g = "auth" /\ authQuery(queryLower) /\ authChunk(h)}

\* x = raw * 1.5^k
isBoosted(x, raw, k) ==
    x * 2^k = raw * 3^k

\* C12: filterAndRankResults sets each candidate's adjustedScore to its raw
\* score times 1.5^k, k in 0..4 being the number of intent groups for which
\* the lowercased query contains a keyword of the group and the candidate
\* meets the group's condition; the boosts are not mutually exclusive.
C12_BoostsComposeMultiplicatively ==
    rankPc = "done" =>
        /\ Len(mapped) = Len(hits)
        /\ \A i \in 1..Len(hits) :
              /\ mapped[i].score = hits[i].score
              /\ isBoosted(mapped[i].adjustedScore, hits[i].score,
                           Cardinality(groupsMet(hits[i], query)))
        /\ \A i \in 1..Len(ranked) :
              isBoosted(ranked[i].adjustedScore, ranked[i].score,
                        Cardinality(groupsMet(ranked[i], query)))

\* a ranked hit that met all four groups, and one that met none
C12_Witness ==
    /\ rankPc = "done"
    /\ Len(ranked) = 2
    /\ Cardinality(groupsMet(ranked[1], query)) = 4
    /\ ranked[1].adjustedScore * 16 = ranked[1].score * 81
    /\ Cardinality(groupsMet(ranked[2], query)) = 0
    /\ ranked[1].score < ranked[2].score

\* C13: filterAndRankResults is deterministic and stable: its output is the
\* one sequence of the candidates above the floor in which a candidate
\* precedes another when its adjustedScore is higher, or equal with a
\* smaller original index (cut to the first 8 by searchRelevantContext).
C13_RankingIsStable ==
    rankPc = "done" =>
        LET passing == {i \in 1..Len(mapped) :
                           mapped[i].adjustedScore > RelevanceFloor}
            ahead(i, j) ==
                \/ mapped[i].adjustedScore > mapped[j].adjustedScore
                \/ mapped[i].adjustedScore = mapped[j].adjustedScore /\ i < j
            rankOf(i) == 1 + Cardinality({j \in passing : ahead(j, i)})
        IN  /\ Len(mapped) = Len(hits)
            /\ Len(ranked) = IF Cardinality(passing) < TopK
                             THEN Cardinality(passing) ELSE TopK
            /\ \A i \in passing :
                  rankOf(i) <= TopK => ranked[rankOf(i)] = mapped[i]

\* two different hits tie on the adjusted score; the one returned first came
\* first in the candidate list although its raw score is lower
C13_Witness ==
    /\ rankPc = "done"
    /\ Len(ranked) = 2
    /\ ranked[1].adjustedScore = ranked[2].adjustedScore
    /\ ranked[1].score < ranked[2].score
    /\ hits[1].score = ranked[1].score

\* C14: the assembled context is the "no context found" sentinel exactly
\* when the ranked chunk list is empty: when no candidate of the search has
\* an adjusted score above the floor the context is the sentinel, and for a
\* non-empty ranked list it differs from the sentinel.
C14_SentinelIffNoRankedChunk ==
    rankPc = "built" =>
        /\ (context = NoContextFound) <=> (Len(ranked) = 0)
        /\ (\A i \in 1..Len(mapped) :
                mapped[i].adjustedScore <= RelevanceFloor) =>
               context = NoContextFound

\* nine candidates, every one of them exactly on the floor: the sentinel
C14_Witness ==
    /\ rankPc = "built"
    /\ Len(hits) >= 9
    /\ \A i \in 1..Len(hits) : mapped[i].adjustedScore = RelevanceFloor
    /\ context = NoContextFound

\* what the content of a chunk contributes to the context: the first 1000
\* characters and the marker when it is longer than 1000, else all of it
contribution(content) ==
    IF Len(content) > 1000
    THEN SubSeq(content, 1, 1000) \o <<".", ".", ".">>
    ELSE content

RECURSIVE expectedSections(_, _)
\* the sections of the first n chunks, each with its content's contribution
\* between the opening and the closing fence
expectedSections(cs, n) ==
    IF n = 0 THEN <<>>
    ELSE expectedSections(cs, n - 1)
           \o sectionHeading(cs[n], n - 1)
           \o ContentOpen \o contribution(cs[n].content) \o ContentClose

\* C15: in the assembled context a chunk whose content is longer than 1000
\* characters contributes exactly its first 1000 characters followed by the
\* truncation marker, and a chunk of 1000 characters or fewer contributes
\* its whole content with no marker.
C15_ContentTruncatedAtLimit ==
    (rankPc = "built" /\ Len(ranked) > 0) =>
        context = ContextHeader \o expectedSections(ranked, Len(ranked))

\* a context built from a chunk of 1001 characters and one of exactly 1000
C15_Witness ==
    /\ rankPc = "built"
    /\ Len(ranked) = 2
    /\ Len(ranked[1].content) = 1001
    /\ Len(ranked[2].content) = 1000
    /\ Len(context) > 2000

isPackageJsonConfig(h) ==
    h.fileName = "package.json" /\ h.chunkType = "configuration"

isUnrelatedCode(h) ==
    h.fileName = "util.js" /\ h.chunkType = "function"

\* C2: for the query "How do I set up this project?" the configuration chunk
\* of package.json gets adjustedScore = 1.5 x its raw score and is ranked
\* ahead of every unrelated code chunk whose raw score is not higher.
C2_SetUpQueryBoostsPackageJson ==
    (rankPc = "done" /\ query = QuerySetUp) =>
        /\ \A i \in 1..Len(hits) :
              isPackageJsonConfig(hits[i]) =>
                  adjustedOf(hits[i]) = (hits[i].score * 3) \div 2
        /\ \A a, b \in 1..Len(ranked) :
              (/\ isPackageJsonConfig(ranked[a])
               /\ isUnrelatedCode(ranked[b])
               /\ ranked[b].score <= ranked[a].score) => a < b

\* C30: for every candidate with a non-negative raw score and every query,
\* raw score <= adjustedScore <= raw score * 1.5^4 (81/16); a candidate
\* whose raw score is above 0.3 is above the relevance floor after boosting
\* and is returned unless the cut to the first 8 removes it.
C30_BoostNeverLowersScore ==
    rankPc = "done" =>
        \A i \in 1..Len(hits) :
            hits[i].score >= 0 =>
                /\ mapped[i].score = hits[i].score
                /\ hits[i].score <= mapped[i].adjustedScore
                /\ mapped[i].adjustedScore * 16 <= hits[i].score * 81
                /\ hits[i].score > RelevanceFloor =>
                      /\ mapped[i].adjustedScore > RelevanceFloor
                      /\ Len(ranked) < TopK =>
                            \E j \in 1..Len(ranked) : ranked[j] = mapped[i]

\* a hit of raw score 0.2 boosted four times, to 1.0125 (162 units), and a
\* hit of raw score 0.4 that no group boosts; both are returned
C30_Witness ==
    /\ rankPc = "done"
    /\ \E i \in 1..Len(hits) :
          /\ hits[i].score = 32
          /\ mapped[i].adjustedScore = 162
          /\ \E j \in 1..Len(ranked) : ranked[j] = mapped[i]
    /\ \E i \in 1..Len(hits) :
          /\ hits[i].score = 64
          /\ mapped[i].adjustedScore = 64
          /\ \E j \in 1..Len(ranked) : ranked[j] = mapped[i]

-----------------------------------------------------------------------------
(* Claims about chunk extraction *)

RECURSIVE filesBelow(_, _, _)
\* every file of the repository below a directory, with its path and
\* whether it and the directories above it can be read
filesBelow(dir, relativePath, readable) ==
    UNION {LET entry == dir.entries[i]
               entryPath == Append(relativePath, entry.name)
           IN  IF entry.kind = "file"
               THEN {[path |-> entryPath, file |-> entry,
                      readable |-> readable /\ entry.readable]}
               ELSE filesBelow(entry, entryPath, readable /\ entry.readable)
           : i \in 1..Len(dir.entries)}

allFiles ==
    filesBelow(repoTree, <<>>, repoTree.readable)

\* the file has a supported extension and neither the ignored-directory set
\* nor the ignore patterns exclude it
eligible(f) ==
    /\ toLowerCase(extname(f.file.name)) \in supportedExtensions
    /\ \A k \in 1..(Len(f.path) - 1) : f.path[k] \notin ignoredDirectories
    /\ ~ignores(loadGitignore(repoTree), f.path)

\* the emitted chunks of the file at a path, and its file_overview chunks
chunksOf(path) ==
    {i \in 1..Len(extracted) : extracted[i].filePath = path}

overviewsOf(path) ==
    {i \in chunksOf(path) : extracted[i].type = "file_overview"}

\* C16: processRepository emits exactly one file_overview chunk for every
\* file of the repository that has a supported extension and is not excluded
\* by the ignored-directory set or the ignore patterns, and no chunk at all
\* for any other file.
C16_OneOverviewPerEligibleFile ==
    xpc = "done" =>
        /\ \A f \in allFiles :
              IF eligible(f)
              THEN Cardinality(overviewsOf(f.path)) = 1
              ELSE chunksOf(f.path) = {}
        /\ \A i \in 1..Len(extracted) :
              \E f \in allFiles : f.path = extracted[i].filePath

\* C16, amended: exactly one file_overview chunk for every such file that
\* can be read (the file and the directories above it), and no chunk at all
\* for any other file, the unreadable ones included.
C16_OneOverviewPerReadableEligibleFile ==
    xpc = "done" =>
        /\ \A f \in allFiles :
              IF eligible(f) /\ f.readable
              THEN Cardinality(overviewsOf(f.path)) = 1
              ELSE chunksOf(f.path) = {}
        /\ \A i \in 1..Len(extracted) :
              \E f \in allFiles : f.path = extracted[i].filePath

\* a repository with a file that got its overview, a supported file that
\* cannot be read, a file excluded by a pattern and one in an ignored
\* directory
C16_Witness ==
    /\ xpc = "done"
    /\ \E f \in allFiles : eligible(f) /\ f.readable /\ Len(f.path) = 2
    /\ \E f \in allFiles : eligible(f) /\ ~f.readable
    /\ \E f \in allFiles : ignores(loadGitignore(repoTree), f.path)
    /\ \E f \in allFiles : f.path[1] \in ignoredDirectories
    /\ Len(extracted) >= 3

\* the number of lines of the file at a path
lineCount(path) ==
    Len((CHOOSE f \in allFiles : f.path = path).file.content)

\* C17: every chunk emitted by the extractor, of any type and for any file
\* content, has 1 <= startLine <= endLine <= number of lines of its file.
C17_LineRangeWithinFile ==
    \A i \in 1..Len(extracted) :
        /\ 1 <= extracted[i].startLine
        /\ extracted[i].startLine <= extracted[i].endLine
        /\ extracted[i].endLine <= lineCount(extracted[i].filePath)

\* a function chunk that starts after the first line and was closed by its
\* braces before the last line
C17_Witness ==
    /\ xpc = "done"
    /\ \E i \in 1..Len(extracted) :
          /\ extracted[i].type = "function"
          /\ extracted[i].startLine > 1
          /\ extracted[i].endLine > extracted[i].startLine
          /\ extracted[i].endLine < lineCount(extracted[i].filePath)

\* the files whose content went through extractCodeChunks
codeFiles ==
    {f \in allFiles :
        /\ eligible(f) /\ f.readable
        /\ toLowerCase(extname(f.file.name)) \in codeExtensions}

\* the scan of extractCodeChunks after the first n lines of a file
scanOf(f, n) ==
    codeScan(f.file.content, n, f.path, f.file.name, RepositoryName)

\* the emitted chunks of a file that extractCodeChunks built, in the order
\* of emission
codeChunksOf(f) ==
    SelectSeq(extracted,
              LAMBDA c : c.filePath = f.path
                         /\ c.type \in {"function", "class", "route"})

\* line n lies inside a block comment: a line before it or the line itself
\* holds the opening delimiter and no line from there to n the closing one
insideComment(lines, n) ==
    \E j \in 1..n :
        /\ lines[j].openComment
        /\ \A k \in j..n : ~lines[k].closeComment

\* C21: in extractCodeChunks a line inside a block comment is appended to
\* the content of the chunk that is open when the line is read; it is only
\* skipped for pattern matching.
C21_CommentLinesAppended ==
    xpc = "done" =>
        \A f \in codeFiles : \A n \in 1..Len(f.file.content) :
            LET before == scanOf(f, n - 1)
                after == scanOf(f, n)
            IN  (insideComment(f.file.content, n)
                   /\ before.currentChunk # NoChunk)
                => after.currentChunk.content
                     = Append(before.currentChunk.content, f.file.content[n])

\* C22: the content of every code chunk is exactly the lines startLine to
\* endLine of its file, each once and in file order; the line that started
\* the chunk is in it once.
C22_ContentIsLineRange ==
    xpc = "done" =>
        \A f \in codeFiles : \A i \in 1..Len(codeChunksOf(f)) :
            LET c == codeChunksOf(f)[i]
            IN  c.content = SubSeq(f.file.content, c.startLine, c.endLine)

\* the pattern families in the order extractCodeChunks tests them
families ==
    <<"function", "class", "route">>

\* the first family, in that order, with a pattern that matches the line
firstFamily(line) ==
    families[CHOOSE k \in 1..Len(families) :
                /\ \E t \in 1..Len(line.types) : line.types[t] = families[k]
                /\ \A m \in 1..(k - 1) :
                      \A t \in 1..Len(line.types) : line.types[t] # families[m]]

\* line n of a file is tested against the patterns: it is not inside a block
\* comment, not blank and not a single-line comment
tested(lines, n) ==
    /\ ~insideComment(lines, n)
    /\ ~lines[n].blank
    /\ ~lines[n].lineComment

triggers(lines, n) ==
    tested(lines, n) /\ lines[n].types # <<>>

RECURSIVE braceBalance(_, _, _)
\* { minus } over the lines from to n of a file
braceBalance(lines, from, n) ==
    IF n < from THEN 0
    ELSE braceBalance(lines, from, n - 1) + lines[n].opens - lines[n].closes

\* a chunk is open while line n of the file is read: the line starts it or it
\* was open before the line
openAt(f, n) ==
    triggers(f.file.content, n) \/ scanOf(f, n - 1).currentChunk # NoChunk

\* the first line of that chunk
openSince(f, n) ==
    IF triggers(f.file.content, n) THEN n
    ELSE scanOf(f, n - 1).currentChunk.startLine

\* that chunk is closed right after line n
closedAfter(f, n) ==
    openAt(f, n) /\ scanOf(f, n).currentChunk = NoChunk

\* that chunk as it is after line n: still open, or the last one closed
chunkAfter(f, n) ==
    LET after == scanOf(f, n)
    IN  IF after.currentChunk # NoChunk THEN after.currentChunk
        ELSE after.chunks[Len(after.chunks)]

\* the rule of the claim for line n of a file
closesByRule(f, n) ==
    closedAfter(f, n)
      <=> /\ braceBalance(f.file.content, openSince(f, n), n) <= 0
          /\ contentLength(chunkAfter(f, n).content) > 100

\* a chunk still open after the last line is emitted if it is not only
\* whitespace, as the last chunk of the file
finalEmitted(f) ==
    LET st == scanOf(f, Len(f.file.content))
    IN  IF st.currentChunk # NoChunk /\ hasText(st.currentChunk.content)
        THEN /\ Len(codeChunksOf(f)) = Len(st.chunks) + 1
             /\ codeChunksOf(f)[Len(codeChunksOf(f))] = st.currentChunk
        ELSE Len(codeChunksOf(f)) = Len(st.chunks)

\* C24: the chunk that is open at a line of the file is closed right after
\* that line exactly when, with the line included, the brace balance counted
\* since the chunk's first line is zero or below and the accumulated content
\* is longer than 100 characters; otherwise it stays open; a chunk open at
\* the end of the file is emitted if it is not only whitespace.
C24_ClosedExactlyWhenBalancedAndLong ==
    xpc = "done" =>
        \A f \in codeFiles :
            /\ \A n \in 1..Len(f.file.content) :
                  openAt(f, n) => closesByRule(f, n)
            /\ finalEmitted(f)

\* the file of the nested function, when the repository holds it
nestedFile ==
    CHOOSE f \in codeFiles : f.file.content = NestedFunctionLines

\* in a file, the chunk that starts at line from is closed right after line
\* n, where it already held more than 100 characters before the line
closedLongAt(f, from, n) ==
    /\ scanOf(f, n - 1).currentChunk.startLine = from
    /\ contentLength(scanOf(f, n - 1).currentChunk.content) > 100
    /\ closedAfter(f, n)
    /\ \E i \in 1..Len(codeChunksOf(f)) :
          /\ codeChunksOf(f)[i].type = "function"
          /\ codeChunksOf(f)[i].startLine = from
          /\ codeChunksOf(f)[i].endLine = n

\* line n is the closing brace of the block that line from opens
closesBlock(lines, from, n) ==
    /\ lines[from].opens = 1 /\ lines[n].closes = 1
    /\ braceBalance(lines, from, n) = 0
    /\ \A k \in from..(n - 1) : braceBalance(lines, from, k) > 0

\* C25: there is an input in which the chunk of an outer function, already
\* longer than 100 characters, is closed at the closing brace of a function
\* nested in it while the outer body is still open: for the file of
\* NestedFunctionLines the chunk of the function of line 1 ends at line 6,
\* the closing brace of the function expression of line 4, where the braces
\* of the outer function are still open.
C25_OuterClosedAtInnerBrace ==
    (xpc = "done" /\ repoTree = NestedRepo) =>
        /\ codeFiles # {}
        /\ closedLongAt(nestedFile, 1, 6)
        /\ closesBlock(NestedFunctionLines, 4, 6)
        /\ braceBalance(NestedFunctionLines, 1, 6) > 0
        /\ closesBlock(NestedFunctionLines, 2, 8)

\* the repository of the nested function was processed and its one code
\* chunk, lines 1 to 6, was emitted
C25_Witness ==
    /\ xpc = "done" /\ repoTree = NestedRepo
    /\ Len(codeChunksOf(nestedFile)) = 1
    /\ codeChunksOf(nestedFile)[1].endLine = 6

\* C29: the code chunks emitted for one file are in increasing order of
\* startLine and their line ranges are pairwise disjoint: the startLine of
\* each is greater than the endLine of the one emitted before it.
C29_CodeChunksDisjointInOrder ==
    \A f \in codeFiles : \A i \in 2..Len(codeChunksOf(f)) :
        codeChunksOf(f)[i].startLine > codeChunksOf(f)[i - 1].endLine

\* a file with a chunk closed by its braces, a line outside every chunk and
\* a second chunk
C29_Witness ==
    /\ xpc = "done"
    /\ \E f \in codeFiles :
          /\ Len(codeChunksOf(f)) = 2
          /\ codeChunksOf(f)[1].endLine > codeChunksOf(f)[1].startLine
          /\ codeChunksOf(f)[2].startLine > codeChunksOf(f)[1].endLine + 1

\* the markdown files whose content went through
\* extractDocumentationChunks
markdownFiles ==
    {f \in allFiles :
        /\ eligible(f) /\ f.readable
        /\ toLowerCase(extname(f.file.name)) = ExtMd}

\* the documentation chunks emitted for a file, in the order of emission
docChunksOf(f) ==
    SelectSeq(extracted,
              LAMBDA c : c.filePath = f.path /\ c.type = "documentation")

\* the header lines of a file
headersOf(lines) ==
    {n \in 1..Len(lines) : lines[n].header}

\* C26: for a markdown file there is one documentation chunk per header
\* line; the chunks are in file order, each starts at its header line and
\* ends on the line before the next header, the last one on the last line of
\* the file, so that they cover the lines from the first header on without
\* overlap.
C26_OneSectionPerHeader ==
    xpc = "done" =>
        \A f \in markdownFiles :
            LET lines == f.file.content
                emitted == docChunksOf(f)
            IN  /\ Len(emitted) = Cardinality(headersOf(lines))
                /\ \A i \in 1..Len(emitted) :
                      /\ emitted[i].startLine \in headersOf(lines)
                      /\ Cardinality({h \in headersOf(lines) :
                                         h < emitted[i].startLine}) = i - 1
                      /\ emitted[i].endLine
                           = IF i < Len(emitted)
                             THEN emitted[i + 1].startLine - 1
                             ELSE Len(lines)

\* a file whose first line starts with # without being a header, followed by
\* a header, a line of text and a second header: two chunks, lines 2-3 and 4
C26_Witness ==
    /\ xpc = "done"
    /\ \E f \in markdownFiles :
          /\ f.file.content
               = <<NoSpaceHeaderLine, HeaderLine, TextLine, SubHeaderLine>>
          /\ Len(docChunksOf(f)) = 2
          /\ docChunksOf(f)[1].startLine = 2
          /\ docChunksOf(f)[1].endLine = 3
          /\ docChunksOf(f)[2].startLine = 4

\* the .json files that went through processFile
jsonFiles ==
    {f \in allFiles :
        /\ eligible(f) /\ f.readable
        /\ toLowerCase(extname(f.file.name)) = ExtJson}

\* the chunks processFile returned for a file, in the order of emission
returnedFor(f) ==
    SelectSeq(extracted, LAMBDA c : c.filePath = f.path)

\* C27: for a .json file processFile returns the file_overview chunk and
\* exactly one configuration chunk when the content parses as JSON, and the
\* file_overview chunk alone when it does not.
C27_ConfigurationChunkIfParses ==
    xpc = "done" =>
        \A f \in jsonFiles :
            LET returned == returnedFor(f)
            IN  /\ Len(returned) = IF parses(f.file.content) THEN 2 ELSE 1
                /\ returned[1].type = "file_overview"
                /\ \A i \in 2..Len(returned) :
                      returned[i].type = "configuration"

\* a package.json of a blank line and a broken object, which does not parse,
\* gave its overview alone
C27_Witness ==
    /\ xpc = "done"
    /\ \E f \in jsonFiles :
          /\ f.file.content = <<BlankLine, JsonBrokenLine>>
          /\ Len(returnedFor(f)) = 1
          /\ returnedFor(f)[1].type = "file_overview"

-----------------------------------------------------------------------------
(* Claims about conversation sessions *)

IsPrefix(a, b) ==
    Len(a) <= Len(b) /\ SubSeq(b, 1, Len(a)) = a

historyOf(table, s) ==
    table[s].conversationHistory

\* C4: a session's interaction history is append-only under any interleaving
\* of queries on the same session id: a stored session stays stored and
\* every record of its history stays at its position in every later state.
C4_HistoryAppendOnly ==
    [][\A s \in DOMAIN sessionsTable :
          /\ s \in DOMAIN sessionsTable'
          /\ IsPrefix(historyOf(sessionsTable, s),
                      historyOf(sessionsTable', s))]_vars

\* C5: in every reachable state the interaction counter of a session equals
\* the length of its history and the number of queries on it that completed
\* successfully, and each successful query adds exactly one record and
\* increments the counter by exactly one.
C5_CounterMatchesHistoryAndCompleted ==
    /\ [](\A s \in SessionIds :
            IF hasItem(sessionsTable, s)
            THEN /\ sessionsTable[s].queryCount =
                        Len(sessionsTable[s].conversationHistory)
                 /\ sessionsTable[s].queryCount = completed[s]
            ELSE completed[s] = 0)
    /\ [][\A s \in SessionIds :
            completed'[s] # completed[s] =>
                /\ completed'[s] = completed[s] + 1
                /\ hasItem(sessionsTable, s) /\ hasItem(sessionsTable', s)
                /\ sessionsTable'[s].queryCount =
                       sessionsTable[s].queryCount + 1
                /\ Len(historyOf(sessionsTable', s)) =
                       Len(historyOf(sessionsTable, s)) + 1]_vars

\* C18: getConversationHistory(sessionId, limit) returns the min(limit, n)
\* most recent of the session's n interaction records, in their original
\* order, for every limit >= 0, and never more than limit records (the
\* calls whose read of the table failed are left aside).
C18_HistoryReturnsMostRecent ==
    (history.called /\ ~history.failed /\ history.limit >= 0) =>
        LET stored == IF hasItem(sessionsTable, history.sessionId)
                      THEN historyOf(sessionsTable, history.sessionId)
                      ELSE <<>>
            n == Len(stored)
            k == IF history.limit < n THEN history.limit ELSE n
        IN  /\ history.result = SubSeq(stored, n - k + 1, n)
            /\ Len(history.result) <= history.limit

\* the request of handler h failed in the embedding, search or generation
\* call
failedInPipeline(h) ==
    qresult[h] = "error" /\ failedAt[h] \in {"embed", "search", "generate"}

\* the serial numbers of the interactions stored in a session
serialsOf(table, s) ==
    {historyOf(table, s)[i].serial : i \in 1..Len(historyOf(table, s))}

\* C19: if the embedding, search or generation call of a query fails, the
\* caller gets a failed request with no response text and no sources, the
\* failing step leaves the sessions table as it was, and the session holds
\* no interaction record of the query and a counter equal to the number of
\* its records.
C19_FailedQueryLeavesNoTrace ==
    [][\A h \in Handlers :
          failedInPipeline(h)' =>
              /\ "response" \notin DOMAIN responseBody(h)'
              /\ "sources" \notin DOMAIN responseBody(h)'
              /\ "error" \in DOMAIN responseBody(h)'
              /\ qpc[h] # "idle" => sessionsTable' = sessionsTable
              /\ hasItem(sessionsTable', qsid'[h]) =>
                    /\ qserial'[h] \notin serialsOf(sessionsTable', qsid'[h])
                    /\ sessionsTable'[qsid'[h]].queryCount =
                          Len(historyOf(sessionsTable', qsid'[h]))]_vars

\* a query failed in generation on a session that holds the record of an
\* earlier query, while another query failed in the embedding call
C19_Witness ==
    \E h, g \in Handlers :
        /\ failedInPipeline(h) /\ failedAt[h] = "generate"
        /\ hasItem(sessionsTable, qsid[h])
        /\ Len(historyOf(sessionsTable, qsid[h])) >= 1
        /\ failedInPipeline(g) /\ failedAt[g] = "embed"

\* the request is one the validation is said to refuse: a query that is
\* missing, empty, white space only or longer than 1000 characters; an
\* ingestion without a repository name or without both URL and local path
failsValidation(request) ==
    IF request.route = "query"
    THEN \/ "query" \notin DOMAIN request.body
         \/ Len(request.body.query) = 0
         \/ \A i \in 1..Len(request.body.query) :
               request.body.query[i] \in WhiteSpace
         \/ Len(request.body.query) > 1000
    ELSE IF request.route = "ingest"
    THEN \/ request.body.repositoryName = ""
         \/ request.body.repositoryUrl = "" /\ request.body.localPath = ""
    ELSE FALSE

\* C20: a request that fails input validation is answered 400 in the step
\* that receives it, and that step creates no session, starts no embedding,
\* search or generation call, writes no job status record and starts no
\* ingestion: nothing but the count of received requests changes.
C20_InvalidRequestHasNoEffect ==
    [][(received' # received /\ failsValidation(received')) =>
          /\ received'.status = 400
          /\ UNCHANGED <<sessionsTable, qpc, qsid, qtext, qserial,
                         relevantChunks, qresult, completed, failedAt>>
          /\ UNCHANGED ingVars
          /\ UNCHANGED rankVars
          /\ UNCHANGED extVars]_vars

\* a white-space query was refused while a session was stored and another
\* query was being served
C20_Witness ==
    /\ received.route = "query"
    /\ received.status = 400
    /\ "query" \in DOMAIN received.body
    /\ Len(received.body.query) > 0
    /\ \A i \in 1..Len(received.body.query) :
          received.body.query[i] \in WhiteSpace
    /\ sessionsTable # <<>>
    /\ \E h \in Handlers : qpc[h] # "idle"

-----------------------------------------------------------------------------
(* Claims about ingestion *)

Terminal == {"completed", "failed"}

\* the persisted status of job j; a job without a record is pending
persistedStatus(table, j) ==
    IF hasItem(table, j) THEN table[j].status ELSE "pending"

\* the number of index documents of a repository
documentCount(repositoryName) ==
    LET ds == {d \in BagToSet(indexDocs) : d.repository = repositoryName}
    IN  BagCardinality([d \in ds |-> indexDocs[d]])

\* the chunks of job j whose embedding call and index call both succeeded
succeeded(j) ==
    {c \in 1..Len(chunkState[j]) : chunkState[j][c] = "ok"}

\* job j ran to its end, reported completed and indexed every chunk
completeIngestion(j) ==
    /\ ipc[j] = "done"
    /\ lastWrite[j].status = "completed"
    /\ Cardinality(succeeded(j)) = Len(chunks[j])

\* C3: re-ingesting the same repository does not duplicate documents: after
\* two complete ingestion jobs of an unchanged repository under the same
\* name, the number of index documents of the repository is the number of
\* chunks of a single ingestion.
C3_ReingestionDoesNotDuplicate ==
    \A j, k \in Jobs :
        (/\ j # k
         /\ completeIngestion(j) /\ completeIngestion(k)
         /\ ibody[j] = ibody[k]) =>
            documentCount(ibody[j].repositoryName) = Len(chunks[j])

\* C6: the persisted status of a job is one of pending, processing,
\* completed, failed; no processing status is written after a terminal one
\* (every terminal write comes last, after at least one processing write),
\* and once completed or failed is persisted no later write changes the
\* job's status.
C6_StatusOrder ==
    /\ [](\A j \in Jobs :
            /\ persistedStatus(ingestionsTable, j)
                  \in {"pending", "processing", "completed", "failed"}
            /\ \A i \in 1..Len(statusLog[j]) :
                  IF statusLog[j][i] \in Terminal
                  THEN /\ i = Len(statusLog[j])
                       /\ i > 1
                  ELSE statusLog[j][i] = "processing")
    /\ [][\A j \in Jobs :
            LET old == persistedStatus(ingestionsTable, j)
                new == persistedStatus(ingestionsTable', j)
            IN  /\ old \in Terminal => new = old
                /\ new = "pending" => old = "pending"
                /\ new = "processing" => old \in {"pending", "processing"}]_vars

\* a job that wrote processing six times, then completed, which is persisted
C6_Witness ==
    \E j \in Jobs :
        /\ ipc[j] = "done"
        /\ Len(statusLog[j]) >= 6
        /\ ibody[j].localPath = ""
        /\ persistedStatus(ingestionsTable, j) = "completed"

\* C7: every started ingestion job eventually has a persisted terminal
\* status, provided every external call returns with a result or an error;
\* stated for the job that has run to its end: its record is then terminal.
C7_EndedJobHasTerminalStatus ==
    \A j \in Jobs :
        ipc[j] = "done" => persistedStatus(ingestionsTable, j) \in Terminal

\* C8: once the ingest call has returned the job identifier, a status lookup
\* for it never reports the job as absent.
C8_StatusLookupNeverNotFound ==
    \A j \in Jobs : poll[j] # "notfound"

\* the chunks of job j with an embedding or index call in flight
inFlight(j) ==
    {c \in 1..Len(chunkState[j]) : chunkState[j][c] \in {"embedding", "indexing"}}

\* the number of the batch of chunk c: chunks.slice(i, i + batchSize)
batchOf(c) ==
    (c - 1) \div batchSize

\* C11: within one ingestion job at most batchSize embedding+index calls are
\* in flight at any moment, and while a call for a chunk of some batch is in
\* flight every call of every earlier batch has finished and no call of a
\* later batch has started.
C11_BoundedFanOutFanIn ==
    \A j \in Jobs :
        /\ Cardinality(inFlight(j)) <= batchSize
        /\ \A c \in inFlight(j) : \A d \in 1..Len(chunkState[j]) :
              /\ batchOf(d) < batchOf(c) => chunkState[j][d] \in {"ok", "failed"}
              /\ batchOf(d) > batchOf(c) => chunkState[j][d] = "waiting"

\* the whole second batch is in flight after a first batch with a failure
C11_Witness ==
    \E j \in Jobs :
        /\ batchStart[j] > 0
        /\ inFlight(j) = batch(j, batchStart[j])
        /\ inFlight(j) # {}
        /\ \E d \in 1..batchStart[j] : chunkState[j][d] = "failed"

\* the source fetch of job j failed entirely
fetchFailed(j) ==
    \/ ierror[j] = "clone failed"
    \/ ipc[j] = "done" /\ repositoryPath(j) = MissingPath

\* C9: whatever per-chunk embedding and index calls fail, the job ends in
\* status completed and never writes failed, and the count it reports is the
\* number of chunks whose embedding and index calls both succeeded, which is
\* the number of documents added to the index.
C9_PartialFailureStillCompletes ==
    /\ BagCardinality(indexDocs) =
          Cardinality({jc \in Jobs \X (1..NumChunks) : jc[2] \in succeeded(jc[1])})
    /\ \A j \in Jobs :
          /\ processedCount[j] = Cardinality(succeeded(j))
          /\ (hasItem(ingestionsTable, j)
                /\ ingestionsTable[j].status = "completed") =>
                 ingestionsTable[j].message.n = Cardinality(succeeded(j))
          /\ (ipc[j] = "done" /\ ierror[j] = "") =>
                 /\ lastWrite[j].status = "completed"
                 /\ lastWrite[j].message.n = Cardinality(succeeded(j))
                 /\ \A i \in 1..Len(statusLog[j]) : statusLog[j][i] # "failed"
                 /\ persistedStatus(ingestionsTable, j) # "failed"

\* one embedding call failed, one index call failed and every other chunk was
\* indexed; the job is completed with the count of the indexed chunks
C9_Witness ==
    \E j \in Jobs :
        /\ ipc[j] = "done"
        /\ calls[j].embed = Len(chunks[j])
        /\ calls[j].index = Len(chunks[j]) - 1
        /\ Cardinality(succeeded(j)) = Len(chunks[j]) - 2
        /\ Cardinality(succeeded(j)) >= 1
        /\ BagCardinality(indexDocs) = Cardinality(succeeded(j))
        /\ persistedStatus(ingestionsTable, j) = "completed"
        /\ ingestionsTable[j].message.n = Cardinality(succeeded(j))

\* C10: when the source fetch fails entirely (the clone fails or the source
\* location cannot be read) the job's final status is failed with the error
\* message attached, and the job made no embedding call, no index write and
\* no repository-metadata write.
C10_FetchFailureFailsTheJob ==
    \A j \in Jobs :
        (ipc[j] = "done" /\ fetchFailed(j)) =>
            /\ lastWrite[j].status = "failed"
            /\ lastWrite[j].message.text # ""
            /\ calls[j] = NoCalls
            /\ ~hasItem(repositoriesTable, ibody[j].repositoryName)

\* C28: every document an ingestion job writes to the index carries the
\* branch passed to that job's ingest call.
C28_DocumentsCarryJobBranch ==
    [][\A j \in Jobs : \A d \in BagToSet(indexDocs') :
          (chunkState'[j] # chunkState[j]
             /\ CopiesIn(d, indexDocs') > CopiesIn(d, indexDocs))
          => d.branch = ibody[j].branch]_vars

=============================================================================
